---- MODULE Spec2Model ----
(***************************************************************************)
(* A model of the RAG tutor: the ingestion pipelines that fill the chunk   *)
(* tables, the in-memory retriever, and the query log behind the quiz      *)
(* loop.                                                                   *)
(*                                                                         *)
(* Each part of the program has its own specification over the shared      *)
(* variables:                                                              *)
(*   SpecUpsert   ai_tutor/chunk_embed_store.py: ingest_paths and          *)
(*                upsert_chunks against the table doc_chunks               *)
(*   SpecIngest   src/ingest.py: process_single_file against the table     *)
(*                DOC_CHUNKS_V4                                            *)
(*   SpecSearch   src/rag_engine.py: RAGEngine._load_vectors and search    *)
(*   SpecQueries  src/database.py: the table USER_QUERIES                  *)
(*   SpecQuiz     main.py run_session and the chat and /mcq endpoints of   *)
(*                api.py, on the table USER_QUERIES                        *)
(*   SpecMcq      src/rag_engine.py generate_mcq and src/query_rag.py      *)
(*                parse_mcq on generated quiz texts                        *)
(*   SpecChunks   ai_tutor/chunk_embed_store.py: window_chunks,            *)
(*                header_aware_chunks, make_chunks                         *)
(*   SpecPages    src/ingest.py: extract_text_with_pages and               *)
(*                smart_chunk_with_pages                                   *)
(*   SpecDocs     api.py: upload_document and delete_document              *)
(*   SpecSwap       api.py and src/rag_engine.py: the engine behind the    *)
(*                  global rag, rebuilt while a search reads it            *)
(*   SpecBatch      ai_tutor/chunk_embed_store.py: ingest_paths, file by file*)
(*   SpecPurge      src/database.py: the guest clean-ups of USER_QUERIES   *)
(*   SpecChat       api.py: create_chat_and_message and get_chat_messages  *)
(*   SpecRace       src/database.py: log_query called by two processes     *)
(*   SpecWindowLoop the loops of window_chunks and chunk_text, by iteration*)
(*   SpecPageLoop   the loop of smart_chunk_with_pages, by iteration       *)
(*   SpecCheck      api.py: check_answer on the fields the client sends    *)
(***************************************************************************)
EXTENDS Integers, Sequences, FiniteSets, TLC

VARIABLES
    \* ---- ai_tutor/chunk_embed_store.py ----
    doc_chunks,     \* table doc_chunks as committed: a sequence of rows
    session,        \* the table as the open connection sees it (with uncommitted rows)
    to_upsert,      \* ingest_paths: the rows handed to upsert_chunks
    upsert_i,       \* upsert_chunks: number of rows of to_upsert already merged
    upsert_pc,      \* "idle" | "merge" | "batch_end" | "final_commit" | "done" | "crashed"
    runs,           \* number of ingest_paths runs started
    first_store,    \* history: doc_chunks when the first attempt for to_upsert started
    rerun_same,     \* history: the run repeats the rows of the completed run before it
    midway,         \* history: an interrupted attempt had committed a part of its rows
    \* ---- src/ingest.py ----
    chunk_table,    \* table DOC_CHUNKS_V4 as committed: a sequence of rows
    pending,        \* rows inserted on db.conn and not yet committed
    ingest_log,     \* history: one entry per process_single_file call
    before_call,    \* history: chunk_table and pending before the last call
    \* ---- src/rag_engine.py ----
    rag,            \* the RAGEngine object: texts, embeddings, metadata; NoEngine before construction
    search_out,     \* the last call of search: its arguments and what it returned or raised
    \* ---- src/database.py ----
    user_queries,   \* table USER_QUERIES: a sequence of records, in insertion order
    q_last,         \* history: the last operation on USER_QUERIES and its arguments
    q_ops,          \* number of operations on USER_QUERIES so far
    \* ---- the quiz loop: main.py and the /mcq endpoints of api.py ----
    tutor,          \* run_session: position in the loop and its local variables
    mcq_resp,       \* the last MCQResponse of /mcq/generate and the user it went to
    asked,          \* per user, the message of the last chat request; <<>> before the first
    quiz_last,      \* history: the last quiz selection or answer, with the table around it
    \* ---- quiz generation: rag_engine.py generate_mcq, query_rag.py parse_mcq ----
    gen,            \* the generation in progress: flow, position, last text, tries, outcome
    \* ---- the chunkers: chunk_embed_store.py, ingest.py ----
    chunk_in,       \* the call: which chunker, its text or pages, its parameters
    chunk_out,      \* what the call returned; NotCalled before the call
    \* ---- documents: upload_document and delete_document of api.py ----
    uploaded_documents, \* table UPLOADED_DOCUMENTS: a sequence of records
    doc_last,       \* history: the last upload or delete and the chunk table before it
    \* ---- the engine objects behind the global rag of api.py ----
    engines,        \* the RAGEngine objects ever allocated, by identity 1, 2, ...
    rag_ref,        \* the global rag: the identity of an engine, 0 for None
    loader,         \* the reload in progress: position in RAGEngine() and its local rows
    reader,         \* the search in progress: its self, its position and what it has read
    published,      \* history: the engines assigned to rag, as they were when assigned
    \* ---- ingest_paths of chunk_embed_store.py, file by file ----
    ingestion, \* the run of ingest_paths: its paths, its position, the rows prepared so far
    \* ---- guest clean-up: database.py cleanup_guest_sessions, cleanup_old_guest_data ----
    now,            \* SYSTIMESTAMP, in units of twelve hours
    purge_last,     \* history: the last clean-up, its argument and USER_QUERIES before it
    \* ---- chat history: api.py create_chat_and_message, get_chat_messages ----
    chat_instances, \* table CHAT_INSTANCES: a sequence of rows
    chat_messages,  \* table CHAT_MESSAGES: a sequence of rows, in insertion order
    utcnow,         \* datetime.utcnow(), in ticks
    msg_out,        \* the last answer of get_chat_messages
    \* ---- log_query called by two processes, each on its own connection ----
    callers,        \* per process, the log_query call in progress: position, arguments, the count it read
    \* ---- the while loops of the chunkers, one iteration at a time ----
    iter,           \* the call in progress: function, text, parameters, start, iterations done
    \* ---- POST /mcq/check with the fields the client sends ----
    check_resp      \* the last AnswerCheckResponse, with the request it answers

upsertVars == <<doc_chunks, session, to_upsert, upsert_i, upsert_pc, runs,
                first_store, rerun_same, midway>>

ingestVars == <<chunk_table, pending, ingest_log, before_call>>

searchVars == <<rag, search_out>>

queryVars == <<user_queries, q_last, q_ops>>

quizVars == <<tutor, mcq_resp, asked, quiz_last>>

mcqVars == <<gen>>

chunkVars == <<chunk_in, chunk_out>>

docVars == <<uploaded_documents, doc_last>>

swapVars == <<engines, rag_ref, loader, reader, published>>

batchVars == <<ingestion>>

purgeVars == <<now, purge_last>>

chatVars == <<chat_instances, chat_messages, utcnow, msg_out>>

raceVars == <<callers>>

loopVars == <<iter>>

checkVars == <<check_resp>>

vars == <<upsertVars, ingestVars, searchVars, queryVars, quizVars, mcqVars,
          chunkVars, docVars, swapVars, batchVars, purgeVars, chatVars, raceVars, loopVars, checkVars>>

notUpsert == <<ingestVars, searchVars, queryVars, quizVars, mcqVars, chunkVars, docVars, swapVars, batchVars, purgeVars, chatVars, raceVars, loopVars, checkVars>>
notIngest == <<upsertVars, searchVars, queryVars, quizVars, mcqVars, chunkVars, docVars, swapVars, batchVars, purgeVars, chatVars, raceVars, loopVars, checkVars>>
notSearch == <<upsertVars, ingestVars, queryVars, quizVars, mcqVars, chunkVars, docVars, swapVars, batchVars, purgeVars, chatVars, raceVars, loopVars, checkVars>>
notQueries == <<upsertVars, ingestVars, searchVars, quizVars, mcqVars, chunkVars, docVars, swapVars, batchVars, purgeVars, chatVars, raceVars, loopVars, checkVars>>
notQuiz == <<upsertVars, ingestVars, searchVars, mcqVars, chunkVars, docVars, swapVars, batchVars, purgeVars, chatVars, raceVars, loopVars, checkVars>>
notMcq == <<upsertVars, ingestVars, searchVars, queryVars, quizVars, chunkVars, docVars, swapVars, batchVars, purgeVars, chatVars, raceVars, loopVars, checkVars>>
notChunks == <<upsertVars, ingestVars, searchVars, queryVars, quizVars, mcqVars, docVars, swapVars, batchVars, purgeVars, chatVars, raceVars, loopVars, checkVars>>
notDocs == <<upsertVars, queryVars, quizVars, mcqVars, chunkVars, swapVars, batchVars, purgeVars, chatVars, raceVars, loopVars, checkVars>>
notSwap == <<upsertVars, ingestVars, searchVars, queryVars, quizVars, mcqVars, chunkVars, docVars, batchVars, purgeVars, chatVars, raceVars, loopVars, checkVars>>
notBatch == <<upsertVars, ingestVars, searchVars, queryVars, quizVars, mcqVars, chunkVars, docVars, swapVars, purgeVars, chatVars, raceVars, loopVars, checkVars>>
notPurge == <<upsertVars, ingestVars, searchVars, queryVars, quizVars, mcqVars, chunkVars, docVars, swapVars, batchVars, chatVars, raceVars, loopVars, checkVars>>
notChat == <<upsertVars, ingestVars, searchVars, queryVars, quizVars, mcqVars, chunkVars, docVars, swapVars, batchVars, purgeVars, raceVars, loopVars, checkVars>>
notRace == <<upsertVars, ingestVars, searchVars, queryVars, quizVars, mcqVars, chunkVars, docVars, swapVars, batchVars, purgeVars, chatVars, loopVars, checkVars>>
notLoop == <<upsertVars, ingestVars, searchVars, queryVars, quizVars, mcqVars, chunkVars, docVars, swapVars, batchVars, purgeVars, chatVars, raceVars, checkVars>>
notCheck == <<upsertVars, ingestVars, searchVars, queryVars, quizVars, mcqVars, chunkVars, docVars, swapVars, batchVars, purgeVars, chatVars, raceVars, loopVars>>

-----------------------------------------------------------------------------
(* Bounds of the model *)

MaxChunks == 2      \* chunks per document version
MaxRuns == 2        \* ingest_paths runs per behaviour
MaxPdfChunks == 3   \* chunks per PDF given to process_single_file
MaxIngestCalls == 2 \* process_single_file calls per behaviour
MaxCorpus == 3      \* rows of DOC_CHUNKS_V4 the retriever loads
MaxTopK == 4        \* largest top_k given to search
MaxQueryOps == 3    \* operations on USER_QUERIES per behaviour
MaxQuizOps == 4     \* chat requests, quiz selections and answers per behaviour
MaxAttempts == 2    \* answers typed to one quiz of run_session
MaxWords == 5       \* pieces of a generated quiz text
MaxText == 5        \* characters of a text given to make_chunks
MaxWindow == 3      \* largest max_chars given to make_chunks
MaxPageChars == 8   \* characters of the longest page of a PDF
MaxDocOps == 3      \* upload and delete requests per behaviour

(* Configuration of chunk_embed_store.py.  Both are read from the          *)
(* environment (defaults 64 and 512); the model runs them at a size where  *)
(* MaxChunks rows span several batches, some followed by a periodic commit *)
(* and some not.                                                           *)
BATCH_SIZE == 2
COMMIT_EVERY_N == 4

COURSE == "ALISHA_DEV"
BUCKET == "course-docs"

-----------------------------------------------------------------------------
(* Helpers *)

Max(a, b) == IF a >= b THEN a ELSE b
Min(a, b) == IF a <= b THEN a ELSE b

Range(s) == {s[i] : i \in DOMAIN s}

RECURSIVE Concat(_)
Concat(ss) == IF ss = <<>> THEN <<>> ELSE Head(ss) \o Concat(Tail(ss))

-----------------------------------------------------------------------------
(* ai_tutor/chunk_embed_store.py *)

Files == {"a.txt", "b.txt"}

\* ingest_paths walks the paths in the order main() gives them (sorted)
PathLists == {<<"a.txt">>, <<"b.txt">>, <<"a.txt", "b.txt">>}

\* The text of a file is one of two revisions; a revision of n chunks is
\* what make_chunks returns for it: chunk i has the content <<rev, i>>.
\* Empty stands for a file whose text yields no chunk.
Revisions == {"r1", "r2"}
Empty == [rev |-> "r1", n |-> 0]
DocVersions == [rev : Revisions, n : 1..MaxChunks] \cup {Empty}

make_chunks(v) == [i \in 1..v.n |-> <<v.rev, i>>]

\* the embedder is a function of the text alone
embed_texts(texts) == [i \in DOMAIN texts |-> <<"vec", texts[i]>>]

json_dumps(m) == <<"json", m>>

\* ingest_paths, lines 295-305: the rows of one file
FileRows(name, v) ==
    LET chunks == make_chunks(v)
    IN [i \in 1..Len(chunks) |->
          [course |-> COURSE,
           source_uri |-> <<"local", name>>,
           chunk_no |-> i,
           content |-> chunks[i],
           metadata |-> [strategy |-> "hybrid", bucket |-> BUCKET, file |-> name]]]

\* ingest_paths, lines 312-317: embeddings batch by batch, zipped onto the rows
EmbedRows(rows) ==
    LET vecs == embed_texts([i \in DOMAIN rows |-> rows[i].content])
    IN [i \in DOMAIN rows |->
          [course |-> rows[i].course, source_uri |-> rows[i].source_uri,
           chunk_no |-> rows[i].chunk_no, content |-> rows[i].content,
           embedding |-> vecs[i], metadata |-> rows[i].metadata]]

\* upsert_chunks, lines 225-227: metadata is serialised before binding
NormalizeRows(rows) ==
    [i \in DOMAIN rows |-> [rows[i] EXCEPT !.metadata = json_dumps(@)]]

SameKey(d, s) ==
    d.course = s.course /\ d.source_uri = s.source_uri /\ d.chunk_no = s.chunk_no

\* A MERGE that always takes the NOT MATCHED branch
MergeAlwaysInsert(table, s) == Append(table, s)

\* upsert_chunks, merge_sql: MERGE INTO doc_chunks ... ON (course, source_uri, chunk_no)
Merge(table, s) ==
    IF \E i \in DOMAIN table : SameKey(table[i], s)
    THEN [i \in DOMAIN table |->
            IF SameKey(table[i], s)
            THEN [table[i] EXCEPT !.content = s.content,
                                  !.embedding = s.embedding,
                                  !.metadata = s.metadata]
            ELSE table[i]]
    ELSE Append(table, s)

RECURSIVE MergeAll(_, _)
MergeAll(table, rows) ==
    IF rows = <<>> THEN table ELSE MergeAll(Merge(table, Head(rows)), Tail(rows))

\* A commit that never reaches the table
CommitLost(committed, seen) == committed

\* conn.commit(): what the connection sees becomes the committed table
Commit(committed, seen) == seen

\* upsert_chunks, line 272: the periodic commit after the batch that starts at row i
CommitDue(i) ==
    ((i \div BATCH_SIZE) % Max(1, COMMIT_EVERY_N \div BATCH_SIZE)) = 0

\* the rows ingest_paths prepares for a list of paths and their contents
Prepare(paths, content) ==
    Concat([k \in DOMAIN paths |-> FileRows(paths[k], content[paths[k]])])

UpsertStart ==
    /\ doc_chunks = <<>>
    /\ session = <<>>
    /\ to_upsert = <<>>
    /\ upsert_i = 0
    /\ upsert_pc = "idle"
    /\ runs = 0
    /\ first_store = <<>>
    /\ rerun_same = FALSE
    /\ midway = FALSE

UpsertResting == upsert_pc \in {"idle", "done", "crashed"}

\* ingest_paths up to the call of upsert_chunks: parse, chunk, embed, connect
IngestPathsBegin ==
    /\ UpsertResting
    /\ runs < MaxRuns
    /\ \E paths \in PathLists, content \in [Files -> DocVersions] :
         LET rows == NormalizeRows(EmbedRows(Prepare(paths, content)))
             retry == upsert_pc = "crashed" /\ rows = to_upsert
         IN /\ \A f \in Files \ Range(paths) : content[f] = Empty
            /\ rows # <<>>
            /\ to_upsert' = rows
            /\ session' = doc_chunks
            /\ upsert_i' = 0
            /\ upsert_pc' = "merge"
            /\ first_store' = IF retry THEN first_store ELSE doc_chunks
            /\ midway' = IF retry THEN midway ELSE FALSE
            /\ rerun_same' = IF retry THEN rerun_same
                             ELSE upsert_pc = "done" /\ rows = to_upsert
    /\ runs' = runs + 1
    /\ UNCHANGED <<doc_chunks, notUpsert>>

\* ingest_paths when nothing was prepared (line 308) or the embedder raises
\* (line 315): the run ends before a connection is opened
IngestPathsNothing ==
    /\ UpsertResting
    /\ runs < MaxRuns
    /\ runs' = runs + 1
    /\ upsert_pc' = "idle"
    /\ to_upsert' = <<>>
    /\ upsert_i' = 0
    /\ rerun_same' = FALSE
    /\ midway' = FALSE
    /\ first_store' = doc_chunks
    /\ UNCHANGED <<doc_chunks, session, notUpsert>>

\* executemany: one row of the current batch is merged
MergeRow ==
    /\ upsert_pc = "merge"
    /\ session' = Merge(session, to_upsert[upsert_i + 1])
    /\ upsert_i' = upsert_i + 1
    /\ upsert_pc' = IF upsert_i' % BATCH_SIZE = 0 \/ upsert_i' = Len(to_upsert)
                    THEN "batch_end" ELSE "merge"
    /\ UNCHANGED <<doc_chunks, to_upsert, runs, first_store, rerun_same, midway, notUpsert>>

\* lines 272-273: after a batch, commit when the batch index is due
BatchEnd ==
    /\ upsert_pc = "batch_end"
    /\ LET start == ((upsert_i - 1) \div BATCH_SIZE) * BATCH_SIZE
       IN doc_chunks' = IF CommitDue(start) THEN Commit(doc_chunks, session)
                        ELSE doc_chunks
    /\ upsert_pc' = IF upsert_i = Len(to_upsert) THEN "final_commit" ELSE "merge"
    /\ UNCHANGED <<session, to_upsert, upsert_i, runs, first_store,
                   rerun_same, midway, notUpsert>>

\* line 274, then ingest_paths closes the connection
FinalCommit ==
    /\ upsert_pc = "final_commit"
    /\ doc_chunks' = Commit(doc_chunks, session)
    /\ upsert_pc' = "done"
    /\ UNCHANGED <<session, to_upsert, upsert_i, runs, first_store,
                   rerun_same, midway, notUpsert>>

\* The process dies, or a statement raises and ingest_paths closes the
\* connection: what was not committed is rolled back
Interrupt ==
    /\ upsert_pc \in {"merge", "batch_end", "final_commit"}
    /\ session' = doc_chunks
    /\ upsert_pc' = "crashed"
    /\ upsert_i' = 0
    /\ midway' = (midway \/ (doc_chunks # first_store))
    /\ UNCHANGED <<doc_chunks, to_upsert, runs, first_store, rerun_same, notUpsert>>

UpsertNext ==
    \/ IngestPathsBegin
    \/ IngestPathsNothing
    \/ MergeRow
    \/ BatchEnd
    \/ FinalCommit
    \/ Interrupt


UniqueKeys(table) ==
    \A i, j \in DOMAIN table : SameKey(table[i], table[j]) => i = j

RowsOfSource(table, uri) == SelectSeq(table, LAMBDA r : r.source_uri = uri)

Sources(rows) == {rows[i].source_uri : i \in DOMAIN rows}

\* C1: a completed run that repeats the rows of the completed run before it
\* leaves doc_chunks exactly as that run left it: the same rows with the same
\* content, embedding and metadata, one row per (course, source_uri,
\* chunk_no), and no row added.
C1_IdempotentUpsert ==
    (upsert_pc = "done" /\ rerun_same) =>
        /\ doc_chunks = first_store
        /\ UniqueKeys(doc_chunks)
        /\ \A uri \in Sources(to_upsert) :
              Len(RowsOfSource(doc_chunks, uri)) = Len(RowsOfSource(first_store, uri))

C1_Witness ==
    /\ upsert_pc = "done"
    /\ rerun_same
    /\ Len(to_upsert) > BATCH_SIZE
    /\ Cardinality(Sources(to_upsert)) = 2

\* C3: after a completed run, the rows stored for each ingested source are
\* exactly the chunks of that run, chunk_no 1..m; no row of an earlier
\* version of the source remains.
C3_ReingestReplaces ==
    upsert_pc = "done" =>
        \A uri \in Sources(to_upsert) :
            RowsOfSource(doc_chunks, uri) = RowsOfSource(to_upsert, uri)

\* C5: when upsert_chunks returns, also after any number of interrupted
\* attempts with the same rows, doc_chunks is what one uninterrupted run from
\* the first attempt's table gives, it holds one row per key, and every
\* input row is committed.
C5_CrashSafeUpsert ==
    upsert_pc = "done" =>
        /\ doc_chunks = MergeAll(first_store, to_upsert)
        /\ UniqueKeys(doc_chunks)
        /\ \A k \in DOMAIN to_upsert : \E i \in DOMAIN doc_chunks : doc_chunks[i] = to_upsert[k]

C5_Witness ==
    /\ upsert_pc = "done"
    /\ midway
    /\ Len(to_upsert) > BATCH_SIZE

-----------------------------------------------------------------------------
(* src/ingest.py *)

\* Embedding batch of ingest.py.  The program embeds 96 texts per call; the
\* model runs it at a size where MaxPdfChunks chunks span several batches.
BATCH_SIZE_ingest == 2

PdfFiles == {"a.pdf", "b.pdf"}

\* smart_chunk_with_pages on the pages of a PDF whose text gives n chunks:
\* chunk i carries the text <<file, i>> and the page it was cut from
PdfChunks(file, n) == [i \in 1..n |-> [text |-> <<file, i>>, page_number |-> i]]

\* co_client.embed: one vector per text, a function of the text
co_embed(texts) == [i \in DOMAIN texts |-> <<"vec", texts[i]>>]

NumBatches(n) == (n + BATCH_SIZE_ingest - 1) \div BATCH_SIZE_ingest

\* generate_embeddings_batched: the batches that succeed extend
\* all_embeddings, a batch that raises is printed and skipped
generate_embeddings_batched(chunks, batch_ok) ==
    LET texts == [i \in DOMAIN chunks |-> chunks[i].text]
        batch(b) == SubSeq(texts, (b - 1) * BATCH_SIZE_ingest + 1,
                           Min(b * BATCH_SIZE_ingest, Len(texts)))
    IN Concat([b \in 1..NumBatches(Len(texts)) |->
                  IF batch_ok[b] THEN co_embed(batch(b)) ELSE <<>>])

\* insert_chunks_with_metadata, lines 133-147: zip(chunks, embeddings)
InsertData(chunks, embeddings, filename) ==
    [i \in 1..Min(Len(chunks), Len(embeddings)) |->
        [chunk_text |-> chunks[i].text,
         embedding |-> embeddings[i],
         source |-> filename,
         chunk_id |-> i - 1,
         page_number |-> chunks[i].page_number,
         total_chunks |-> Len(chunks)]]

\* A guard that lets every document through
CountsMatchAlways(embeddings, chunks) == TRUE

\* process_single_file, line 181
CountsMatch(embeddings, chunks) == Len(embeddings) = Len(chunks)

IngestStart ==
    /\ chunk_table = <<>>
    /\ pending = <<>>
    /\ ingest_log = <<>>
    /\ before_call = [table |-> <<>>, pending |-> <<>>]

\* The effect of process_single_file(db, co_client, filepath) on the table
\* and on db.conn's open transaction, and the number it returns.
\*   readable   extract_text_with_pages returned pages with text
\*   n          the number of chunks smart_chunk_with_pages cut
\*   batch_ok   which embedding batches succeeded
\*   inserted   n when executemany and the commit succeed; k < n when
\*              executemany raises after k rows, which the except clause
\*              prints without a rollback
process_single_file(filename, readable, n, batch_ok, inserted) ==
    LET chunks == PdfChunks(filename, n)
        embeddings == generate_embeddings_batched(chunks, batch_ok)
        data == InsertData(chunks, embeddings, filename)
    IN IF ~readable
       THEN [table |-> chunk_table, pending |-> pending, returned |-> 0]
       ELSE IF CountsMatch(embeddings, chunks)
       THEN IF inserted >= Len(data)
            THEN [table |-> chunk_table \o pending \o data, pending |-> <<>>,
                  returned |-> Len(chunks)]
            ELSE [table |-> chunk_table,
                  pending |-> pending \o SubSeq(data, 1, inserted),
                  returned |-> Len(chunks)]
       ELSE [table |-> chunk_table, pending |-> pending, returned |-> 0]

\* main(), lines 223-226: one file of the input directory is processed
ProcessSingleFile ==
    /\ Len(ingest_log) < MaxIngestCalls
    /\ \E filename \in PdfFiles, n \in 1..MaxPdfChunks, readable \in BOOLEAN :
       \E batch_ok \in [1..NumBatches(n) -> BOOLEAN], inserted \in 0..n :
         LET all_ok == \A b \in DOMAIN batch_ok : batch_ok[b]
             res == process_single_file(filename, readable, n, batch_ok, inserted)
         IN \* one choice for each distinct outcome
            /\ ~readable => (n = 1 /\ all_ok /\ inserted = n)
            /\ ~all_ok => inserted = n
            /\ chunk_table' = res.table
            /\ pending' = res.pending
            /\ before_call' = [table |-> chunk_table, pending |-> pending]
            /\ ingest_log' = Append(ingest_log,
                   [filename |-> filename, readable |-> readable, n |-> n,
                    embedded |-> Len(generate_embeddings_batched(
                                         PdfChunks(filename, n), batch_ok)),
                    inserted |-> inserted, returned |-> res.returned])
    /\ UNCHANGED notIngest

\* main(), lines 206-208, answered with y: db.clear_table deletes every row
\* on db.conn and commits
ClearTable ==
    /\ chunk_table' = <<>>
    /\ pending' = <<>>
    /\ ingest_log' = <<>>
    /\ before_call' = [table |-> <<>>, pending |-> <<>>]
    /\ UNCHANGED notIngest

IngestNext ==
    \/ ProcessSingleFile
    \/ ClearTable

LastCall == ingest_log[Len(ingest_log)]

\* the calls that read the file and found its text
CallsOn(filename) ==
    SelectSeq(ingest_log, LAMBDA c : c.filename = filename /\ c.readable)

TableRowsOf(filename) == SelectSeq(chunk_table, LAMBDA r : r.source = filename)

\* every call on the file saw the same document and stored it
SameDocumentStored(filename) ==
    LET calls == CallsOn(filename)
    IN /\ calls # <<>>
       /\ \A i \in DOMAIN calls : /\ calls[i].n = calls[1].n
                                  /\ calls[i].embedded = calls[i].n
                                  /\ calls[i].inserted = calls[i].n

\* C2: after any number of ingestions of the same unchanged file, the table
\* holds no two rows with the same source and chunk_id, and as many rows of
\* that source as the document has chunks.
C2_ReingestNoop ==
    \A filename \in PdfFiles :
        SameDocumentStored(filename) =>
            LET rows == TableRowsOf(filename)
            IN /\ \A i, j \in DOMAIN rows : rows[i].chunk_id = rows[j].chunk_id => i = j
               /\ Len(rows) = CallsOn(filename)[1].n

\* C4: a call whose embeddings do not match its chunks in number leaves the
\* table and the open transaction as they were and returns 0; and every row,
\* committed or pending, holds the embedding of its own text.
C4_MismatchAborts ==
    /\ (ingest_log # <<>> /\ LastCall.readable /\ LastCall.embedded # LastCall.n) =>
          /\ chunk_table = before_call.table
          /\ pending = before_call.pending
          /\ LastCall.returned = 0
    /\ \A r \in Range(chunk_table) \cup Range(pending) :
          r.embedding = co_embed(<<r.chunk_text>>)[1]

C4_Witness ==
    /\ ingest_log # <<>>
    /\ LastCall.readable
    /\ LastCall.embedded # LastCall.n
    /\ LastCall.embedded > 0
    /\ chunk_table # <<>>


-----------------------------------------------------------------------------
(* src/rag_engine.py *)

\* Embedding vectors, in tenths: [1,0], [0,1], [0.7,0.7], the zero vector
\* and [-1,0]
Vectors == {<<10, 0>>, <<0, 10>>, <<7, 7>>, <<0, 0>>, <<-10, 0>>}

Dot(a, b) == a[1] * b[1] + a[2] * b[2]

Sgn(x) == IF x > 0 THEN 1 ELSE IF x < 0 THEN -1 ELSE 0

\* cosine_similarity(query_vec, embeddings)[0][i] for a stored vector v.
\* Both sides are L2-normalised (lines 40-41, 50, and again inside
\* cosine_similarity), a zero vector stays zero and scores 0.  The score is
\* kept exactly, as the signed square of the cosine, num / den with den > 0:
\* x |-> sgn(x) * x^2 is increasing, so scores compare as the cosines do.
Score(q, v) ==
    IF Dot(q, q) = 0 \/ Dot(v, v) = 0
    THEN [num |-> 0, den |-> 1]
    ELSE [num |-> Sgn(Dot(q, v)) * Dot(q, v) * Dot(q, v), den |-> Dot(q, q) * Dot(v, v)]

ScoreLE(s, t) == s.num * t.den <= t.num * s.den
ScoreLT(s, t) == s.num * t.den < t.num * s.den
ScoreEQ(s, t) == s.num * t.den = t.num * s.den

IndexOrders(n) ==
    {p \in [1..n -> 1..n] : \A i, j \in 1..n : p[i] = p[j] => i = j}

\* np.argsort(scores): an index order in which the scores do not decrease.
\* The default sort kind is not stable, so equal scores may come in any order.
Argsorts(scores) ==
    {p \in IndexOrders(Len(scores)) :
        \A i \in 1..(Len(scores) - 1) : ScoreLE(scores[p[i]], scores[p[i + 1]])}

\* seq[len(seq) - k:], which wraps around when k > len(seq)
TakeLastWrapping(seq, k) ==
    LET start == Len(seq) - k
        from == IF start >= 0 THEN start ELSE Max(0, Len(seq) + start)
    IN SubSeq(seq, from + 1, Len(seq))

\* seq[-k:]
TakeLast(seq, k) ==
    IF k = 0 \/ k >= Len(seq) THEN seq ELSE SubSeq(seq, Len(seq) - k + 1, Len(seq))

\* the slice [::-1] left out
NotReversed(seq) == seq

\* seq[::-1]
Reverse(seq) == [i \in 1..Len(seq) |-> seq[Len(seq) + 1 - i]]

\* search line 53: np.argsort(scores)[-top_k:][::-1]
TopIdxs(order, top_k) == Reverse(TakeLast(order, top_k))

NoEngine == [constructed |-> FALSE]

\* RAGEngine.__init__ and _load_vectors: the rows of the table, in the
\* order the SELECT returns them, as three index-aligned lists
LoadVectors(table) ==
    [constructed |-> TRUE,
     texts |-> [i \in DOMAIN table |-> table[i].chunk_text],
     embeddings |-> [i \in DOMAIN table |-> table[i].embedding],
     metadata |-> [i \in DOMAIN table |->
                     [source |-> table[i].source, chunk_id |-> table[i].chunk_id,
                      page_number |-> table[i].page_number,
                      total_chunks |-> table[i].total_chunks]]]

SearchStart ==
    /\ rag = NoEngine
    /\ search_out = [status |-> "none"]

\* a stored corpus of n chunks with the given embeddings
CorpusTable(vecs) ==
    [i \in DOMAIN vecs |->
        [chunk_text |-> <<"chunk", i>>, embedding |-> vecs[i], source |-> "a.pdf",
         chunk_id |-> i - 1, page_number |-> 1, total_chunks |-> Len(vecs)]]

Corpora == UNION {[1..n -> Vectors] : n \in 0..MaxCorpus}

\* startup(): rag = RAGEngine(conn)
NewRAGEngine ==
    /\ ~rag.constructed
    /\ rag' = LoadVectors(chunk_table)
    /\ UNCHANGED <<search_out, chunk_table, pending, ingest_log, before_call,
                   upsertVars, queryVars, quizVars, mcqVars, chunkVars, docVars, swapVars, batchVars, purgeVars, chatVars, raceVars, loopVars, checkVars>>

Scores(q) == [i \in DOMAIN rag.embeddings |-> Score(q, rag.embeddings[i])]

\* search(query, top_k), query_vec being the embedding of the query.
\* With no embedding loaded, self.embeddings is still the empty list of
\* __init__, and cosine_similarity rejects it with a ValueError.
Search ==
    /\ rag.constructed
    /\ search_out.status = "none"
    /\ \E query_vec \in Vectors, top_k \in 1..MaxTopK :
         IF rag.embeddings = <<>>
         THEN search_out' = [status |-> "raised", query_vec |-> query_vec,
                             top_k |-> top_k, top_idxs |-> <<>>, results |-> <<>>,
                             sources |-> <<>>]
         ELSE \E order \in Argsorts(Scores(query_vec)) :
                LET top_idxs == TopIdxs(order, top_k)
                IN search_out' =
                     [status |-> "ok", query_vec |-> query_vec, top_k |-> top_k,
                      top_idxs |-> top_idxs,
                      results |-> [i \in DOMAIN top_idxs |-> rag.texts[top_idxs[i]]],
                      sources |-> [i \in DOMAIN top_idxs |->
                                     [filename |-> rag.metadata[top_idxs[i]].source,
                                      chunk_id |-> rag.metadata[top_idxs[i]].chunk_id,
                                      relevance_score |->
                                          Scores(query_vec)[top_idxs[i]]]]]
    /\ UNCHANGED <<rag, chunk_table, pending, ingest_log, before_call,
                   upsertVars, queryVars, quizVars, mcqVars, chunkVars, docVars, swapVars, batchVars, purgeVars, chatVars, raceVars, loopVars, checkVars>>

\* the caller has taken the result; the next request may come
SearchReturn ==
    /\ search_out.status # "none"
    /\ search_out' = [status |-> "none"]
    /\ UNCHANGED <<rag, chunk_table, pending, ingest_log, before_call,
                   upsertVars, queryVars, quizVars, mcqVars, chunkVars, docVars, swapVars, batchVars, purgeVars, chatVars, raceVars, loopVars, checkVars>>

SearchNext ==
    \/ NewRAGEngine
    \/ Search
    \/ SearchReturn

Searched == search_out.status \in {"ok", "raised"}

Returned == search_out.top_idxs
CorpusSize == Len(rag.embeddings)
ScoreOf(i) == Score(search_out.query_vec, rag.embeddings[i])

Descending ==
    \A i, j \in DOMAIN Returned : i < j => ScoreLE(ScoreOf(Returned[j]), ScoreOf(Returned[i]))

\* C6: a search over a non-empty corpus returns the chunks in non-increasing
\* order of score, and no chunk left out scores strictly higher than a
\* returned one; for the corpus [1,0], [0,1], [0.7,0.7], the query [1,0] and
\* top_k = 2 it returns the first chunk with score 1, then the third.
C6_Ranking ==
    (Searched /\ CorpusSize >= 1) =>
        /\ search_out.status = "ok"
        /\ Len(Returned) >= 1
        /\ Descending
        /\ \A e \in (1..CorpusSize) \ Range(Returned) : \A i \in DOMAIN Returned :
              ~ScoreLT(ScoreOf(Returned[i]), ScoreOf(e))
        /\ search_out.results = [i \in DOMAIN Returned |-> rag.texts[Returned[i]]]
        /\ (/\ rag.embeddings = <<(<<10, 0>>), (<<0, 10>>), (<<7, 7>>)>>
            /\ search_out.query_vec = <<10, 0>>
            /\ search_out.top_k = 2)
           => /\ Returned = <<1, 3>>
              /\ ScoreOf(1) = [num |-> 10000, den |-> 10000]

C6_Witness ==
    /\ search_out.status = "ok"
    /\ rag.embeddings = <<(<<10, 0>>), (<<0, 10>>), (<<7, 7>>)>>
    /\ search_out.query_vec = <<10, 0>>
    /\ search_out.top_k = 2
    /\ Returned = <<1, 3>>

\* C7: a search against a retriever built from an empty table returns an
\* empty result sequence and empty sources, and does not raise.
C7_EmptyCorpus ==
    (Searched /\ CorpusSize = 0) =>
        /\ search_out.status = "ok"
        /\ search_out.results = <<>>
        /\ search_out.sources = <<>>

\* C8: chunks with equal scores are returned in storage order, and of two
\* equal-scoring chunks of which only one is returned, it is the one stored
\* earlier.
C8_TieOrder ==
    search_out.status = "ok" =>
        /\ \A i, j \in DOMAIN Returned :
              (i < j /\ ScoreEQ(ScoreOf(Returned[i]), ScoreOf(Returned[j])))
                  => Returned[i] < Returned[j]
        /\ \A e \in (1..CorpusSize) \ Range(Returned) : \A i \in DOMAIN Returned :
              ScoreEQ(ScoreOf(e), ScoreOf(Returned[i])) => Returned[i] < e

\* C9: with top_k above the number CorpusSize >= 1 of stored chunks, search does not
\* raise and returns all CorpusSize chunks, each once, in descending order of score.
C9_TopKAboveCorpus ==
    (Searched /\ CorpusSize >= 1 /\ search_out.top_k > CorpusSize) =>
        /\ search_out.status = "ok"
        /\ Len(Returned) = CorpusSize
        /\ Range(Returned) = 1..CorpusSize
        /\ Descending

C9_Witness ==
    /\ search_out.status = "ok"
    /\ CorpusSize = 3
    /\ search_out.top_k = 4
    /\ Len(Returned) = 3

-----------------------------------------------------------------------------
(* src/database.py: USER_QUERIES *)

UserIds == {"u1", "u2"}

\* Questions, as sequences of characters
QueryTexts == {<<"Q">>, <<"q">>, <<"q", " ">>, <<" ", "Q">>, <<"r">>}

\* str.lower() on one character
LowerChar(c) == IF c = "Q" THEN "q" ELSE IF c = "R" THEN "r" ELSE c

\* str.lower()
Lower(t) == [i \in DOMAIN t |-> LowerChar(t[i])]

IsSpace(c) == c \in {" ", "\n"}

RECURSIVE LStrip(_)
LStrip(t) == IF t # <<>> /\ IsSpace(Head(t)) THEN LStrip(Tail(t)) ELSE t

RECURSIVE RStrip(_)
RStrip(t) ==
    IF t # <<>> /\ IsSpace(t[Len(t)]) THEN RStrip(SubSeq(t, 1, Len(t) - 1)) ELSE t

\* str.strip()
Strip(t) == LStrip(RStrip(t))

\* query_text.lower().strip()
Normalize(t) == Strip(Lower(t))

\* hashlib.sha256(...).hexdigest(): taken as injective
Sha256(t) == <<"sha256", t>>

\* log_user_query of src/query_rag.py hashes the text as typed
RawHash(query_text) == Sha256(query_text)

\* log_query line 86, mark_correct line 147
QueryHash(query_text) == Sha256(Normalize(query_text))

Flag(b) == IF b THEN "Y" ELSE "N"

QueryStart ==
    /\ user_queries = <<>>
    /\ q_last = [op |-> "none"]
    /\ q_ops = 0

\* SELECT COUNT(*) FROM USER_QUERIES WHERE user_id = :1 AND query_hash = :2
CountQueries(table, user_id, query_hash) ==
    Cardinality({i \in DOMAIN table :
                    table[i].user_id = user_id /\ table[i].query_hash = query_hash})

\* DatabaseManager.log_query
log_query(table, user_id, query_text, is_guest) ==
    LET query_hash == QueryHash(query_text)
    IN IF CountQueries(table, user_id, query_hash) = 0
       THEN Append(table, [user_id |-> user_id, query_text |-> query_text,
                           query_hash |-> query_hash, answered_correctly |-> "N",
                           is_guest |-> Flag(is_guest)])
       ELSE table

\* DatabaseManager.mark_correct
mark_correct(table, user_id, query_text) ==
    LET query_hash == QueryHash(query_text)
    IN [i \in DOMAIN table |->
          IF table[i].user_id = user_id /\ table[i].query_hash = query_hash
          THEN [table[i] EXCEPT !.answered_correctly = "Y"]
          ELSE table[i]]

LogQuery ==
    /\ q_ops < MaxQueryOps
    /\ \E user_id \in UserIds, query_text \in QueryTexts, is_guest \in BOOLEAN :
         /\ user_queries' = log_query(user_queries, user_id, query_text, is_guest)
         /\ q_last' = [op |-> "log_query", user_id |-> user_id,
                       query_text |-> query_text, is_guest |-> is_guest]
    /\ q_ops' = q_ops + 1
    /\ UNCHANGED notQueries

MarkCorrect ==
    /\ q_ops < MaxQueryOps
    /\ \E user_id \in UserIds, query_text \in QueryTexts :
         /\ user_queries' = mark_correct(user_queries, user_id, query_text)
         /\ q_last' = [op |-> "mark_correct", user_id |-> user_id,
                       query_text |-> query_text]
    /\ q_ops' = q_ops + 1
    /\ UNCHANGED notQueries

QueriesNext ==
    \/ LogQuery
    \/ MarkCorrect

\* the records of a user whose text normalizes like t
RecordsFor(table, user_id, t) ==
    {i \in DOMAIN table :
        table[i].user_id = user_id /\ Normalize(table[i].query_text) = Normalize(t)}

OneRecordPerQuestion ==
    \A i, j \in DOMAIN user_queries :
        (/\ user_queries[i].user_id = user_queries[j].user_id
         /\ Normalize(user_queries[i].query_text) = Normalize(user_queries[j].query_text))
            => i = j

\* a log_query step: unchanged table when the user has a record with the
\* same normalized text, one record appended for this user otherwise
LogQueryEffect ==
    q_last'.op = "log_query" =>
        IF RecordsFor(user_queries, q_last'.user_id, q_last'.query_text) # {}
        THEN user_queries' = user_queries
        ELSE user_queries' =
                Append(user_queries,
                       [user_id |-> q_last'.user_id,
                        query_text |-> q_last'.query_text,
                        query_hash |-> Sha256(Normalize(q_last'.query_text)),
                        answered_correctly |-> "N",
                        is_guest |-> Flag(q_last'.is_guest)])

-----------------------------------------------------------------------------
(* The quiz loop: run_session of main.py and the chat and /mcq endpoints   *)
(* of api.py, both on the table USER_QUERIES                               *)

\* Questions typed by the users of the quiz loop
QuizTexts == {<<"Q">>, <<"q", " ">>, <<"r">>}

\* Answers typed to a quiz
TypedAnswers == {<<"A">>, <<"b">>, <<"B", " ">>}

\* Python's None and the empty string: both are false in `if x:`
None == <<>>

\* a request without a token and without a user_id
NoUser == ""

\* str.upper() on one character
UpperChar(c) ==
    IF c = "a" THEN "A" ELSE IF c = "b" THEN "B" ELSE IF c = "q" THEN "Q"
    ELSE IF c = "r" THEN "R" ELSE c

\* str.upper()
Upper(t) == [i \in DOMAIN t |-> UpperChar(t[i])]

\* What rag.search followed by rag.generate_mcq hands back to the quiz step:
\* (None, None, None), a letter with an empty question part, or a question
\* with its letter; the first also stands for an exception inside the try
\* of /mcq/generate.
McqResults ==
    {[q_text |-> None, correct_ans |-> None],
     [q_text |-> <<>>, correct_ans |-> <<"A">>],
     [q_text |-> <<"?">>, correct_ans |-> <<"A">>],
     [q_text |-> <<"?">>, correct_ans |-> <<"B">>]}

\* `if q_text and correct_ans`
McqValid(m) == m.q_text # <<>> /\ m.correct_ans # None

\* a SELECT that forgets AND answered_correctly = 'N'
AnyOfUser(table, user_id) ==
    {i \in DOMAIN table : table[i].user_id = user_id}

\* a SELECT that forgets WHERE user_id = :1
UnmasteredOfAnyone(table, user_id) ==
    {i \in DOMAIN table : table[i].answered_correctly = "N"}

\* the rows of get_random_past_query's inner SELECT
Unmastered(table, user_id) ==
    {i \in DOMAIN table :
        table[i].user_id = user_id /\ table[i].answered_correctly = "N"}

\* DatabaseManager.get_random_past_query: the values it can return.  ORDER BY
\* DBMS_RANDOM.VALUE with ROWNUM = 1 yields any one of the selected rows.
get_random_past_query(table, user_id) ==
    IF Unmastered(table, user_id) = {}
    THEN {None}
    ELSE {table[i].query_text : i \in Unmastered(table, user_id)}

\* check_answer line 646: the condition under which mark_correct is called
MarkAlways(is_correct, is_first_attempt, user_id) == is_correct /\ user_id # NoUser

MarksMastered(is_correct, is_first_attempt, user_id) ==
    is_correct /\ is_first_attempt /\ user_id # NoUser

NoMcq == [user_id |-> NoUser, has_question |-> FALSE, topic |-> None,
          correct_answer |-> None]

QuizStart ==
    /\ tutor = [pc |-> "ask", user_id |-> "u1", question |-> None,
                past_query |-> None, correct_ans |-> None, attempts |-> 0]
    /\ mcq_resp = NoMcq
    /\ asked = [u \in UserIds |-> None]
    /\ quiz_last = [op |-> "none"]

\* history record of a quiz selection
Selection(flow, user_id, current, past_query, has_question, table) ==
    [op |-> "select", flow |-> flow, user_id |-> user_id, current |-> current,
     past_query |-> past_query, has_question |-> has_question, before |-> table]

\* history record of an answer
Answered(flow, user_id, topic, is_correct, first, before, after) ==
    [op |-> "answer", flow |-> flow, user_id |-> user_id, topic |-> topic,
     is_correct |-> is_correct, first |-> first, before |-> before,
     after |-> after]

\* run_session, one pass of the loop from the prompt for a question to the
\* first prompt for an answer, or to the end of the pass when no quiz is shown
ScriptTurn ==
    /\ tutor.pc = "ask"
    /\ q_ops < MaxQuizOps
    /\ \E typed \in QuizTexts, hint_ok \in BOOLEAN, m \in McqResults :
         LET question == Strip(typed)
             user_id == tutor.user_id
         IN IF question = <<>> \/ ~hint_ok
            THEN UNCHANGED <<user_queries, tutor, quiz_last>>
            ELSE \E past_query \in get_random_past_query(user_queries, user_id) :
                   LET shown == past_query # None /\ McqValid(m)
                   IN /\ quiz_last' = Selection("script", user_id, question,
                                                past_query, shown, user_queries)
                      /\ IF shown
                         THEN /\ tutor' = [tutor EXCEPT !.pc = "answer",
                                                        !.question = question,
                                                        !.past_query = past_query,
                                                        !.correct_ans = m.correct_ans,
                                                        !.attempts = 0]
                              /\ UNCHANGED user_queries
                         ELSE /\ user_queries' =
                                    log_query(user_queries, user_id, question, FALSE)
                              /\ UNCHANGED tutor
    /\ q_ops' = q_ops + 1
    /\ UNCHANGED <<q_last, mcq_resp, asked>>
    /\ UNCHANGED notQuiz

\* run_session, the retry loop: one answer typed, to the next prompt
ScriptAnswer ==
    /\ tutor.pc = "answer"
    /\ q_ops < MaxQuizOps
    /\ \E typed \in TypedAnswers :
         LET user_ans == Upper(Strip(typed))
             attempts == tutor.attempts + 1
             user_id == tutor.user_id
             is_correct == user_ans = tutor.correct_ans
             after == IF MarksMastered(is_correct, attempts = 1, user_id)
                      THEN mark_correct(user_queries, user_id, tutor.past_query)
                      ELSE user_queries
         IN /\ quiz_last' = Answered("script", user_id, tutor.past_query,
                                     is_correct, attempts = 1, user_queries, after)
            /\ IF is_correct
               THEN /\ user_queries' = log_query(after, user_id, tutor.question, FALSE)
                    /\ tutor' = [tutor EXCEPT !.pc = "ask", !.attempts = attempts]
               ELSE /\ attempts < MaxAttempts
                    /\ UNCHANGED user_queries
                    /\ tutor' = [tutor EXCEPT !.attempts = attempts]
    /\ q_ops' = q_ops + 1
    /\ UNCHANGED <<q_last, mcq_resp, asked>>
    /\ UNCHANGED notQuiz

\* POST /chats/message; nothing is logged when search or the hint raises
CreateChatAndMessage ==
    /\ q_ops < MaxQuizOps
    /\ \E user_id \in UserIds, message \in QuizTexts, ok \in BOOLEAN :
         IF ok
         THEN /\ user_queries' = log_query(user_queries, user_id, message, FALSE)
              /\ asked' = [asked EXCEPT ![user_id] = message]
         ELSE UNCHANGED <<user_queries, asked>>
    /\ q_ops' = q_ops + 1
    /\ UNCHANGED <<q_last, tutor, mcq_resp, quiz_last>>
    /\ UNCHANGED notQuiz

\* POST /chat
LegacyChat ==
    /\ q_ops < MaxQuizOps
    /\ \E user_id \in UserIds, question \in QuizTexts, ok \in BOOLEAN :
         IF ok
         THEN /\ user_queries' = log_query(user_queries, user_id, question, TRUE)
              /\ asked' = [asked EXCEPT ![user_id] = question]
         ELSE UNCHANGED <<user_queries, asked>>
    /\ q_ops' = q_ops + 1
    /\ UNCHANGED <<q_last, tutor, mcq_resp, quiz_last>>
    /\ UNCHANGED notQuiz

\* POST /mcq/generate, once startup has set rag
GenerateMcq ==
    /\ q_ops < MaxQuizOps
    /\ \E user_id \in UserIds \cup {NoUser}, m \in McqResults :
         IF user_id = NoUser
         THEN /\ mcq_resp' = NoMcq
              /\ UNCHANGED quiz_last
         ELSE \E past_query \in get_random_past_query(user_queries, user_id) :
                LET shown == past_query # None /\ McqValid(m)
                IN /\ mcq_resp' =
                        IF shown
                        THEN [user_id |-> user_id, has_question |-> TRUE,
                              topic |-> past_query,
                              correct_answer |-> m.correct_ans]
                        ELSE NoMcq
                   /\ quiz_last' = Selection("api", user_id, asked[user_id],
                                             past_query, shown, user_queries)
    /\ q_ops' = q_ops + 1
    /\ UNCHANGED <<user_queries, q_last, tutor, asked>>
    /\ UNCHANGED notQuiz

\* POST /mcq/check, for the quiz the last MCQResponse presented
CheckAnswer ==
    /\ q_ops < MaxQuizOps
    /\ mcq_resp.has_question
    /\ \E user_answer \in TypedAnswers, is_first_attempt \in BOOLEAN :
         LET user_id == mcq_resp.user_id
             topic == mcq_resp.topic
             is_correct == Upper(user_answer) = Upper(mcq_resp.correct_answer)
             after == IF MarksMastered(is_correct, is_first_attempt, user_id)
                      THEN mark_correct(user_queries, user_id, topic)
                      ELSE user_queries
         IN /\ user_queries' = after
            /\ quiz_last' = Answered("api", user_id, topic, is_correct,
                                     is_first_attempt, user_queries, after)
    /\ q_ops' = q_ops + 1
    /\ UNCHANGED <<q_last, tutor, mcq_resp, asked>>
    /\ UNCHANGED notQuiz

QuizNext ==
    \/ ScriptTurn
    \/ ScriptAnswer
    \/ CreateChatAndMessage
    \/ LegacyChat
    \/ GenerateMcq
    \/ CheckAnswer

\* the table with the records of this user and exactly this text mastered
WithMastered(table, user_id, text) ==
    [i \in DOMAIN table |->
        IF table[i].user_id = user_id /\ table[i].query_text = text
        THEN [table[i] EXCEPT !.answered_correctly = "Y"]
        ELSE table[i]]

\* C11: an answer to a quiz masters the quizzed record, and changes nothing
\* else, exactly when it is correct and the first attempt; an incorrect
\* answer and a correct answer on a later attempt leave the records of
\* every user as they were.
C11_MasteryTransition ==
    quiz_last.op = "answer" =>
        /\ \E i \in DOMAIN quiz_last.before :
              /\ quiz_last.before[i].user_id = quiz_last.user_id
              /\ quiz_last.before[i].query_text = quiz_last.topic
        /\ IF quiz_last.is_correct /\ quiz_last.first
           THEN quiz_last.after =
                    WithMastered(quiz_last.before, quiz_last.user_id, quiz_last.topic)
           ELSE quiz_last.after = quiz_last.before

\* a correct answer on the second attempt of run_session: the quizzed record
\* stays unmastered
C11_Witness ==
    /\ quiz_last.op = "answer"
    /\ quiz_last.flow = "script"
    /\ quiz_last.is_correct
    /\ ~quiz_last.first
    /\ \E i \in DOMAIN user_queries :
          /\ user_queries[i].user_id = quiz_last.user_id
          /\ user_queries[i].query_text = quiz_last.topic
          /\ user_queries[i].answered_correctly = "N"

\* the records of a user that are not mastered
OpenRecords(table, user_id) ==
    {i \in DOMAIN table :
        table[i].user_id = user_id /\ table[i].answered_correctly # "Y"}

\* the records of a user that are mastered
MasteredRecords(table, user_id) ==
    {i \in DOMAIN table :
        table[i].user_id = user_id /\ table[i].answered_correctly = "Y"}

\* a step keeps every mastered record in its place, mastered and unaltered
MasteredStays ==
    \A i \in DOMAIN user_queries :
        user_queries[i].answered_correctly = "Y" =>
            /\ i \in DOMAIN user_queries'
            /\ user_queries'[i] = user_queries[i]

\* the last selection did not return a question its user had mastered
NotReselected ==
    (quiz_last.op = "select" /\ quiz_last.past_query # None) =>
        \A i \in MasteredRecords(quiz_last.before, quiz_last.user_id) :
            Normalize(quiz_last.before[i].query_text) # Normalize(quiz_last.past_query)

\* C12: a mastered record stays mastered through every later chat request,
\* quiz selection and answer, and get_random_past_query does not return a
\* question its user has mastered.
C12_MasteredTerminal == []NotReselected /\ [][MasteredStays]_vars

\* the user asked a mastered question again and a quiz was selected for them:
\* it is about another question
C12_Witness ==
    /\ quiz_last.op = "select"
    /\ quiz_last.past_query # None
    /\ \E i \in MasteredRecords(quiz_last.before, quiz_last.user_id) :
          Normalize(quiz_last.before[i].query_text) = Normalize(quiz_last.current)

\* /mcq/generate can return the text of record i to this user
CanSelect(user_id, i) ==
    ENABLED (/\ GenerateMcq
             /\ quiz_last'.op = "select"
             /\ quiz_last'.user_id = user_id
             /\ quiz_last'.past_query = user_queries[i].query_text)

\* C13: a selection returns the text of an unmastered record of its user
\* when the user has one, and then each of them can be the one returned;
\* it returns nothing, and no quiz is reported, when the user has none.
C13_NextQuizSelection ==
    /\ quiz_last.op = "select" =>
          IF OpenRecords(quiz_last.before, quiz_last.user_id) # {}
          THEN \E i \in OpenRecords(quiz_last.before, quiz_last.user_id) :
                  quiz_last.past_query = quiz_last.before[i].query_text
          ELSE quiz_last.past_query = None /\ ~quiz_last.has_question
    /\ q_ops < MaxQuizOps =>
          \A user_id \in UserIds :
              \A i \in OpenRecords(user_queries, user_id) : CanSelect(user_id, i)

\* /mcq/generate returned the later of two unmastered questions of a user
\* who also has a mastered one, while another user has an unmastered one
C13_Witness ==
    /\ quiz_last.op = "select"
    /\ quiz_last.flow = "api"
    /\ quiz_last.has_question
    /\ \E i, j \in OpenRecords(quiz_last.before, quiz_last.user_id) :
          /\ i < j
          /\ quiz_last.past_query = quiz_last.before[j].query_text
    /\ \E u \in UserIds :
          u # quiz_last.user_id /\ OpenRecords(quiz_last.before, u) # {}

\* C14: the quiz shown in a turn is about a question whose normalized text
\* differs from the question asked in that turn.
C14_QuizNotCurrent ==
    (quiz_last.op = "select" /\ quiz_last.has_question) =>
        Normalize(quiz_last.past_query) # Normalize(quiz_last.current)

-----------------------------------------------------------------------------
(* Quiz generation: RAGEngine.generate_mcq as used by /mcq/generate and    *)
(* run_session, and generate_mcq with parse_mcq in the loop of             *)
(* src/query_rag.py.  A generated text is a sequence of characters.        *)

\* the pieces the generated texts of the model are made of
Words == {"Question:", "Correct Answer:", "Explanation:", "B", "x", " "}

\* the characters of a piece
WordChars(w) ==
    CASE w = "Question:" -> <<"Q", "u", "e", "s", "t", "i", "o", "n", ":">>
      [] w = "Correct Answer:" ->
            <<"C", "o", "r", "r", "e", "c", "t", " ", "A", "n", "s", "w", "e", "r", ":">>
      [] w = "Explanation:" ->
            <<"E", "x", "p", "l", "a", "n", "a", "t", "i", "o", "n", ":">>
      [] OTHER -> <<w>>

RECURSIVE Expand(_)
Expand(ws) == IF ws = <<>> THEN <<>> ELSE WordChars(Head(ws)) \o Expand(Tail(ws))

\* the texts the language model may answer with
GenTexts == UNION {{Expand(ws) : ws \in [1..n -> Words]} : n \in 0..MaxWords}

\* range(3) in the loop of query_rag.py
MCQ_TRIES == 3

QUESTION == WordChars("Question:")
CORRECT_ANSWER == WordChars("Correct Answer:")
EXPLANATION == WordChars("Explanation:")

\* pat occurs in text at position i
StartsAt(text, pat, i) ==
    /\ i >= 1
    /\ i + Len(pat) - 1 <= Len(text)
    /\ SubSeq(text, i, i + Len(pat) - 1) = pat

\* the positions of pat in text from position from on
Occurrences(text, pat, from) ==
    {i \in from..Len(text) : StartsAt(text, pat, i)}

\* str.find from a position, 1-based; 0 when pat does not occur
Find(text, pat, from) ==
    IF Occurrences(text, pat, from) = {} THEN 0
    ELSE CHOOSE i \in Occurrences(text, pat, from) :
            \A j \in Occurrences(text, pat, from) : i <= j

\* text[from:]
From(text, from) == SubSeq(text, from, Len(text))

\* re.search of a character class: position of the first character in it, or 0
FirstIn(text, class) ==
    IF \A i \in DOMAIN text : text[i] \notin class THEN 0
    ELSE CHOOSE i \in DOMAIN text :
            text[i] \in class /\ \A j \in 1..(i - 1) : text[j] \notin class

\* [A-D] under re.IGNORECASE
LettersAnyCase == {"A", "B", "C", "D", "a", "b", "c", "d"}

\* [A-D]
Letters == {"A", "B", "C", "D"}

\* the triple (None, None, None)
NoneTriple == [q_text |-> None, correct_ans |-> None, explanation |-> None]

\* generate_mcq line 186: re.search(r"([A-D])", remaining_text, re.IGNORECASE)
SearchLetter(remaining_text) == FirstIn(remaining_text, LettersAnyCase)

\* RAGEngine.generate_mcq from line 181 on: the parse of the generated text
engine_parse(text) ==
    LET k == Find(text, CORRECT_ANSWER, 1)
    IN IF k = 0 THEN NoneTriple
       ELSE LET rest == From(text, k + Len(CORRECT_ANSWER))
                k2 == Find(rest, CORRECT_ANSWER, 1)
                \* parts = text.split("Correct Answer:")
                question_part == Strip(SubSeq(text, 1, k - 1))
                remaining_text == IF k2 = 0 THEN rest ELSE SubSeq(rest, 1, k2 - 1)
                match == SearchLetter(remaining_text)
                e == Find(remaining_text, EXPLANATION, 1)
                e2 == IF e = 0 THEN 0
                      ELSE Find(remaining_text, EXPLANATION, e + Len(EXPLANATION))
                explanation ==
                    IF e = 0 THEN <<>>
                    ELSE Strip(SubSeq(remaining_text, e + Len(EXPLANATION),
                                      IF e2 = 0 THEN Len(remaining_text) ELSE e2 - 1))
            IN IF match = 0 THEN NoneTriple
               ELSE [q_text |-> question_part,
                     correct_ans |-> <<UpperChar(remaining_text[match])>>,
                     explanation |-> explanation]

\* parse_mcq of query_rag.py
parse_mcq(mcq_text) ==
    LET q == Find(mcq_text, QUESTION, 1)
        \* (Question:.*?)(?=Correct Answer:)
        qe == IF q = 0 THEN 0 ELSE Find(mcq_text, CORRECT_ANSWER, q + Len(QUESTION))
        question_with_choices ==
            IF qe = 0 THEN <<>> ELSE Strip(SubSeq(mcq_text, q, qe - 1))
        \* Correct Answer:\s*([A-D])
        answers ==
            {k \in Occurrences(mcq_text, CORRECT_ANSWER, 1) :
                LET after == LStrip(From(mcq_text, k + Len(CORRECT_ANSWER)))
                IN after # <<>> /\ Head(after) \in Letters}
        correct_answer ==
            IF answers = {} THEN None
            ELSE LET k == CHOOSE k \in answers : \A j \in answers : k <= j
                 IN <<Head(LStrip(From(mcq_text, k + Len(CORRECT_ANSWER))))>>
        \* Explanation:\s*(.+)
        e == Find(mcq_text, EXPLANATION, 1)
        explanation ==
            IF e = 0 THEN <<>> ELSE Strip(From(mcq_text, e + Len(EXPLANATION)))
    IN [q_text |-> question_with_choices, correct_ans |-> correct_answer,
        explanation |-> explanation]

McqStart ==
    gen = [flow |-> "none", pc |-> "start", text |-> None, tries |-> 0,
           shown |-> FALSE, q_text |-> None, correct_ans |-> None]

\* the quiz step of /mcq/generate and of run_session for a chosen past
\* query: one call of RAGEngine.generate_mcq, in which the call of the
\* language model raises or answers with a text
EngineGenerate ==
    /\ gen.pc = "start"
    /\ \E raised \in BOOLEAN, text \in GenTexts :
         LET m == IF raised THEN NoneTriple ELSE engine_parse(text)
             shown == McqValid(m)
         IN /\ raised => text = <<>>
            /\ gen' = [flow |-> "engine", pc |-> "done",
                       text |-> IF raised THEN None ELSE text, tries |-> 1,
                       shown |-> shown /\ ~raised,
                       q_text |-> IF shown THEN m.q_text ELSE None,
                       correct_ans |-> IF shown THEN m.correct_ans ELSE None]
    /\ UNCHANGED notMcq

\* query_rag.py: one pass of `for _ in range(3)`, and after its last pass
\* the decision to display the question
ScriptGenerate ==
    /\ gen.pc \in {"start", "retry"}
    /\ gen.flow \in {"none", "script"}
    /\ gen.tries < MCQ_TRIES
    /\ \E text \in GenTexts :
         LET m == parse_mcq(Strip(text))
             ok == m.correct_ans # None /\ m.explanation # <<>> /\ m.q_text # <<>>
             tries == gen.tries + 1
         IN gen' = IF ok
                   THEN [flow |-> "script", pc |-> "done", text |-> text,
                         tries |-> tries, shown |-> TRUE, q_text |-> m.q_text,
                         correct_ans |-> m.correct_ans]
                   ELSE [flow |-> "script",
                         pc |-> IF tries = MCQ_TRIES THEN "done" ELSE "retry",
                         text |-> None, tries |-> tries, shown |-> FALSE,
                         q_text |-> None, correct_ans |-> None]
    /\ UNCHANGED notMcq

McqNext ==
    \/ EngineGenerate
    \/ ScriptGenerate

\* the text has the marker and, somewhere after its first occurrence, one of
\* the letters A, B, C, D
HasAnswerLetter(text) ==
    \E k \in DOMAIN text :
        /\ StartsAt(text, CORRECT_ANSWER, k)
        /\ \A j \in 1..(k - 1) : ~StartsAt(text, CORRECT_ANSWER, j)
        /\ \E i \in (k + Len(CORRECT_ANSWER))..Len(text) : text[i] \in Letters

\* C15: a question is shown only for a generated text that has the marker
\* "Correct Answer:" and a letter A-D after it, with a non-empty question
\* text and a correct letter among A, B, C, D; the engine generates once,
\* the script at most 3 times, and a turn that ends without a valid text
\* shows nothing.
C15_MalformedNeverShown ==
    /\ gen.flow = "engine" => gen.tries = 1
    /\ gen.tries <= MCQ_TRIES
    /\ gen.shown =>
          /\ gen.pc = "done"
          /\ HasAnswerLetter(gen.text)
          /\ gen.q_text # <<>>
          /\ Len(gen.correct_ans) = 1
          /\ gen.correct_ans[1] \in Letters

-----------------------------------------------------------------------------
(* The chunkers of ai_tutor/chunk_embed_store.py (the same code is in      *)
(* src/chunking.py) on texts of characters                                 *)

\* the characters of the texts given to the chunkers
ChunkAlphabet == {"a", "A", ":", " ", "\n"}

ChunkTexts == UNION {[1..n -> ChunkAlphabet] : n \in 0..MaxText}

\* text[start:end] for 0 <= start <= end <= len(text)
Slice(text, start, end) == SubSeq(text, start + 1, end)

\* window_chunks line 128
WindowEnd(start, max_chars, n) == Min(start + max_chars, n)

\* a window that starts where the last one ended
NoOverlapStart(end, overlap) == end

\* a window that starts one character late
LateStart(end, overlap) == end - overlap + 1

\* window_chunks line 131
NextStart(end, overlap) == Max(0, end - overlap)

\* window_chunks, the while loop from a given start
RECURSIVE WindowLoop(_, _, _, _, _)
WindowLoop(text, out, start, max_chars, overlap) ==
    LET n == Len(text)
    IN IF ~(start < n) THEN out
       ELSE LET end == WindowEnd(start, max_chars, n)
                out2 == Append(out, Slice(text, start, end))
            IN IF end = n THEN out2
               ELSE WindowLoop(text, out2, NextStart(end, overlap), max_chars, overlap)

window_chunks(text, max_chars, overlap) ==
    IF text = <<>> THEN <<>> ELSE WindowLoop(text, <<>>, 0, max_chars, overlap)

\* re.split(r"\n\s*\n", text): the pieces between the matches.  A match
\* starts at the first newline that is followed, over whitespace only, by
\* another newline, and runs to the last such newline.
MatchEnds(text, i) ==
    {j \in (i + 1)..Len(text) :
        /\ text[j] = "\n"
        /\ \A k \in (i + 1)..(j - 1) : IsSpace(text[k])}

MatchStarts(text) ==
    {i \in DOMAIN text : text[i] = "\n" /\ MatchEnds(text, i) # {}}

RECURSIVE re_split(_)
re_split(text) ==
    IF MatchStarts(text) = {} THEN <<text>>
    ELSE LET i == CHOOSE i \in MatchStarts(text) : \A k \in MatchStarts(text) : i <= k
             j == CHOOSE j \in MatchEnds(text, i) : \A k \in MatchEnds(text, i) : k <= j
         IN <<SubSeq(text, 1, i - 1)>> \o re_split(SubSeq(text, j + 1, Len(text)))

\* [p.strip() for p in re.split(...) if p.strip()]
Paras(text) == SelectSeq([i \in DOMAIN re_split(text) |-> Strip(re_split(text)[i])],
                         LAMBDA p : p # <<>>)

\* p.splitlines()[0] of a non-empty stripped paragraph
FirstLine(p) ==
    IF \A i \in DOMAIN p : p[i] # "\n" THEN p
    ELSE SubSeq(p, 1, (CHOOSE i \in DOMAIN p :
                          p[i] = "\n" /\ \A k \in 1..(i - 1) : p[k] # "\n") - 1)

\* str.isupper(): a cased character, and no lowercase one
IsUpper(line) ==
    /\ \E i \in DOMAIN line : line[i] = "A"
    /\ \A i \in DOMAIN line : line[i] # "a"

\* is_header; the numbered-heading pattern needs a digit or a ".", which the
\* texts of the model do not have
is_header(p) ==
    LET line == FirstLine(p)
    IN Len(line) <= 80 /\ (IsUpper(line) \/ (line # <<>> /\ line[Len(line)] = ":"))

\* buf[-overlap:] if overlap and buf else ""
Tail_(buf, overlap) ==
    IF overlap # 0 /\ buf # <<>>
    THEN SubSeq(buf, Max(1, Len(buf) - overlap + 1), Len(buf))
    ELSE <<>>

\* header_aware_chunks, the loop over paras from paragraph k on
RECURSIVE ParaLoop(_, _, _, _, _, _)
ParaLoop(paras, k, chunks, buf, max_chars, overlap) ==
    IF k > Len(paras) THEN IF buf # <<>> THEN Append(chunks, buf) ELSE chunks
    ELSE LET p == paras[k]
             add == IF buf # <<>> THEN <<"\n", "\n">> \o p ELSE p
             fits == Len(buf \o add) <= max_chars
             chunks1 == IF ~fits /\ buf # <<>> THEN Append(chunks, buf) ELSE chunks
             tail == Tail_(buf, overlap)
             buf1 == IF fits THEN buf \o add
                     ELSE IF tail # <<>> THEN tail \o <<"\n", "\n">> \o p ELSE p
             flush == is_header(p) /\ Len(buf1) > max_chars
         IN ParaLoop(paras, k + 1,
                     IF flush THEN Append(chunks1, buf1) ELSE chunks1,
                     IF flush THEN <<>> ELSE buf1,
                     max_chars, overlap)

\* a long chunk cut down to its first window
FirstWindowOnly(c, max_chars, overlap) == <<SubSeq(c, 1, Min(Len(c), max_chars))>>

\* a final pass that lets long chunks through
NoPostSplit(c, max_chars, overlap) == <<c>>

\* header_aware_chunks line 159
PostSplit(c, max_chars, overlap) ==
    IF Len(c) > max_chars THEN window_chunks(c, max_chars, overlap) ELSE <<c>>

header_aware_chunks(text, max_chars, overlap) ==
    IF text = <<>> THEN <<>>
    ELSE LET chunks == ParaLoop(Paras(text), 1, <<>>, <<>>, max_chars, overlap)
         IN Concat([i \in DOMAIN chunks |-> PostSplit(chunks[i], max_chars, overlap)])

\* make_chunks(text, strategy, max_chars, overlap)
MakeChunks(text, strategy, max_chars, overlap) ==
    IF strategy # "window"
    THEN header_aware_chunks(text, max_chars, overlap)
    ELSE window_chunks(text, max_chars, overlap)

NotCalled == [called |-> FALSE]

ChunkStart == chunk_in = [fn |-> "none"] /\ chunk_out = NotCalled

\* the calls of make_chunks: every text, both strategies, 0 <= overlap < max_chars
ChunkInit ==
    /\ \E text \in ChunkTexts, strategy \in {"window", "hybrid"},
          max_chars \in 1..MaxWindow :
          \E overlap \in 0..(max_chars - 1) :
              chunk_in = [fn |-> "make_chunks", text |-> text, strategy |-> strategy,
                          max_chars |-> max_chars, overlap |-> overlap]
    /\ chunk_out = NotCalled

CallWindow ==
    /\ chunk_in.fn = "make_chunks"
    /\ chunk_in.strategy = "window"
    /\ ~chunk_out.called
    /\ chunk_out' = [called |-> TRUE,
                     chunks |-> MakeChunks(chunk_in.text, chunk_in.strategy,
                                           chunk_in.max_chars, chunk_in.overlap)]
    /\ UNCHANGED chunk_in
    /\ UNCHANGED notChunks

CallHybrid ==
    /\ chunk_in.fn = "make_chunks"
    /\ chunk_in.strategy = "hybrid"
    /\ ~chunk_out.called
    /\ chunk_out' = [called |-> TRUE,
                     chunks |-> MakeChunks(chunk_in.text, chunk_in.strategy,
                                           chunk_in.max_chars, chunk_in.overlap)]
    /\ UNCHANGED chunk_in
    /\ UNCHANGED notChunks

ChunkNext ==
    \/ CallWindow
    \/ CallHybrid

\* the window strategy was applied to a non-empty text
WindowDone ==
    /\ chunk_in.fn = "make_chunks"
    /\ chunk_in.strategy = "window"
    /\ chunk_out.called
    /\ chunk_in.text # <<>>

\* a chunk without its first k characters
DropFirst(c, k) == SubSeq(c, k + 1, Len(c))

\* the first chunk followed by every later chunk without its first k characters
Reassemble(chunks, k) ==
    Concat([i \in DOMAIN chunks |-> IF i = 1 THEN chunks[i] ELSE DropFirst(chunks[i], k)])

\* C16: under the window strategy, the first chunk followed by every later
\* chunk without its first `overlap` characters is the original text.
C16_WindowCoverage ==
    WindowDone =>
        /\ chunk_out.chunks # <<>>
        /\ \A i \in 2..Len(chunk_out.chunks) :
              Len(chunk_out.chunks[i]) > chunk_in.overlap
        /\ Reassemble(chunk_out.chunks, chunk_in.overlap) = chunk_in.text

\* a text cut into three or more overlapping windows
C16_Witness ==
    /\ WindowDone
    /\ chunk_in.overlap > 0
    /\ Len(chunk_out.chunks) >= 3

\* C17: every chunk of make_chunks, window or hybrid, has at most max_chars
\* characters, and an empty text gives no chunk.
C17_BoundedChunks ==
    (chunk_in.fn = "make_chunks" /\ chunk_out.called) =>
        /\ \A i \in DOMAIN chunk_out.chunks :
              Len(chunk_out.chunks[i]) <= chunk_in.max_chars
        /\ chunk_in.text = <<>> => chunk_out.chunks = <<>>

\* the hybrid strategy on a text with a paragraph longer than max_chars and
\* a paragraph break
C17_Witness ==
    /\ chunk_in.fn = "make_chunks"
    /\ chunk_in.strategy = "hybrid"
    /\ chunk_out.called
    /\ Len(Paras(chunk_in.text)) >= 2
    /\ \E k \in DOMAIN Paras(chunk_in.text) :
          Len(Paras(chunk_in.text)[k]) > chunk_in.max_chars
    /\ Len(chunk_out.chunks) >= 2

\* C18: under the window strategy chunk i is the window of the text that
\* starts (i - 1) * (max_chars - overlap) characters in; every chunk but the
\* last has max_chars characters, the last ends where the text ends, and
\* the last `overlap` characters of a chunk are the first of the next.
C18_WindowStep ==
    WindowDone =>
        LET out == chunk_out.chunks
            n == Len(chunk_in.text)
            step == chunk_in.max_chars - chunk_in.overlap
        IN /\ out # <<>>
           /\ \A i \in DOMAIN out :
                 /\ (i - 1) * step < n
                 /\ out[i] = SubSeq(chunk_in.text, (i - 1) * step + 1,
                                    (i - 1) * step + Len(out[i]))
                 /\ i < Len(out) => Len(out[i]) = chunk_in.max_chars
                 /\ i = Len(out) => (i - 1) * step + Len(out[i]) = n
                 /\ i < Len(out) =>
                       SubSeq(out[i], Len(out[i]) - chunk_in.overlap + 1, Len(out[i]))
                           = SubSeq(out[i + 1], 1, chunk_in.overlap)

\* windows of 3 characters with overlap 1 and a shorter last chunk
C18_Witness ==
    /\ WindowDone
    /\ chunk_in.max_chars = 3
    /\ chunk_in.overlap = 1
    /\ Len(chunk_out.chunks) >= 2
    /\ Len(chunk_out.chunks[Len(chunk_out.chunks)]) < chunk_in.max_chars

HybridDone ==
    /\ chunk_in.fn = "make_chunks"
    /\ chunk_in.strategy = "hybrid"
    /\ chunk_out.called

\* chunks i..j are window pieces in a row: all but the last are full
\* windows, and each ends with the `overlap` characters the next begins with
WindowRun(out, i, j, max_chars, overlap) ==
    \A m \in i..(j - 1) :
        /\ Len(out[m]) = max_chars
        /\ Len(out[m + 1]) > overlap
        /\ SubSeq(out[m], max_chars - overlap + 1, max_chars)
              = SubSeq(out[m + 1], 1, overlap)

\* p stands in s from offset o on
StandsAt(p, s, o) == o + Len(p) <= Len(s) /\ SubSeq(s, o + 1, o + Len(p)) = p

\* where paragraph p is found: <<i, o>> when p stands from offset o on in
\* chunk i, or in chunk i and the window pieces that follow it, put together
Occurrences_(p, out, max_chars, overlap) ==
    {pos \in (DOMAIN out) \X (0..MaxText) :
        \E j \in pos[1]..Len(out) :
            /\ WindowRun(out, pos[1], j, max_chars, overlap)
            /\ StandsAt(p, Reassemble(SubSeq(out, pos[1], j), overlap), pos[2])}

PositionBefore(a, b) == a[1] < b[1] \/ (a[1] = b[1] /\ a[2] < b[2])

\* paragraphs k, k + 1, ... are found one after the other, all after `last`
RECURSIVE FoundInOrder(_, _, _, _, _, _)
FoundInOrder(paras, k, last, out, max_chars, overlap) ==
    k > Len(paras) \/
    \E pos \in Occurrences_(paras[k], out, max_chars, overlap) :
        /\ PositionBefore(last, pos)
        /\ FoundInOrder(paras, k + 1, pos, out, max_chars, overlap)

\* C28: with 0 <= overlap < max_chars, every non-blank paragraph of the
\* text, trimmed, stands character for character in the output of the
\* hybrid strategy, inside one chunk or across window pieces in a row, and
\* the paragraphs are found in the order of the text
C28_NoTextLost ==
    HybridDone =>
        FoundInOrder(Paras(chunk_in.text), 1, <<0, 0>>, chunk_out.chunks,
                     chunk_in.max_chars, chunk_in.overlap)

\* a text of two paragraphs, one of them longer than max_chars and found
\* across window pieces only
C28_Witness ==
    /\ HybridDone
    /\ Len(Paras(chunk_in.text)) = 2
    /\ \E k \in DOMAIN Paras(chunk_in.text) :
          /\ Len(Paras(chunk_in.text)[k]) > chunk_in.max_chars
          /\ \A i \in DOMAIN chunk_out.chunks :
                \A o \in 0..MaxText :
                    ~StandsAt(Paras(chunk_in.text)[k], chunk_out.chunks[i], o)

-----------------------------------------------------------------------------
(* Page-aware chunking of src/ingest.py: extract_text_with_pages and        *)
(* smart_chunk_with_pages                                                  *)

(* CHUNK_SIZE and CHUNK_OVERLAP of ingest.py are 1000 and 200; the model   *)
(* runs them at the smallest size where the trailing 30% of a window holds *)
(* more than its last character.                                           *)
CHUNK_SIZE == 7
CHUNK_OVERLAP == 1

\* the characters of the page texts
PageAlphabet == {"a", ".", "\n"}

\* extract_text_with_pages: the pages that have text, with their numbers
extract_text_with_pages(raw) ==
    LET numbered == [i \in DOMAIN raw |-> [page_number |-> i, text |-> raw[i]]]
    IN SelectSeq(numbered, LAMBDA pg : Strip(pg.text) # <<>>)

\* str.rfind(c): 0-based position of the last c, -1 when there is none
RFind(zone, c) ==
    IF \A i \in DOMAIN zone : zone[i] # c THEN -1
    ELSE (CHOOSE i \in DOMAIN zone :
             zone[i] = c /\ \A j \in (i + 1)..Len(zone) : zone[j] # c) - 1

\* position > (chunk_size * 0.7)
Trailing(position, chunk_size) == 10 * position > 7 * chunk_size

\* a cut that ignores periods and newlines
HardCut(search_zone, chunk_size) == chunk_size

\* smart_chunk_with_pages lines 64-72: the length of the chunk cut from a
\* search zone of chunk_size characters
CutLength(search_zone, chunk_size) ==
    LET last_period == RFind(search_zone, ".")
        last_newline == RFind(search_zone, "\n")
    IN IF Trailing(last_period, chunk_size) THEN last_period + 1
       ELSE IF Trailing(last_newline, chunk_size) THEN last_newline + 1
       ELSE chunk_size

\* smart_chunk_with_pages, the while loop over one page from a given start:
\* the cuts it makes, as [page_number, start, end, text] with text stripped
RECURSIVE PageCuts(_, _, _, _, _)
PageCuts(pg, start, cuts, chunk_size, overlap) ==
    LET text == pg.text
        text_len == Len(text)
    IN IF ~(start < text_len) THEN cuts
       ELSE IF start + chunk_size >= text_len
            THEN Append(cuts, [page_number |-> pg.page_number, start |-> start,
                               end |-> text_len,
                               text |-> Strip(Slice(text, start, text_len))])
            ELSE LET end == start + CutLength(Slice(text, start, start + chunk_size),
                                              chunk_size)
                 IN PageCuts(pg, end - overlap,
                             Append(cuts, [page_number |-> pg.page_number,
                                           start |-> start, end |-> end,
                                           text |-> Strip(Slice(text, start, end))]),
                             chunk_size, overlap)

\* the cuts of all pages, in the order of the for loop
AllCuts(pages, chunk_size, overlap) ==
    Concat([i \in DOMAIN pages |-> PageCuts(pages[i], 0, <<>>, chunk_size, overlap)])

\* smart_chunk_with_pages: a chunk for every cut whose stripped text is not empty
smart_chunk_with_pages(pages, chunk_size, overlap) ==
    LET kept == SelectSeq(AllCuts(pages, chunk_size, overlap),
                          LAMBDA c : c.text # <<>>)
    IN [i \in DOMAIN kept |-> [text |-> kept[i].text,
                               page_number |-> kept[i].page_number]]

\* a page without text, a page of whitespace, a page of one character
ShortPages == {<<>>, <<"\n">>, <<"a">>}

\* the documents given to process_single_file: reader.pages with
\* page.extract_text() of each; a page of up to MaxPageChars characters,
\* alone or with a short page before or after it
PagesInit ==
    /\ \E n \in 0..MaxPageChars :
          \E t \in [1..n -> PageAlphabet], s \in ShortPages :
             \E raw \in {<<t>>, <<t, s>>, <<s, t>>} :
                chunk_in = [fn |-> "smart_chunk_with_pages", raw |-> raw]
    /\ chunk_out = NotCalled

\* process_single_file, step A
ExtractTextWithPages ==
    /\ chunk_in.fn = "smart_chunk_with_pages"
    /\ chunk_out = NotCalled
    /\ chunk_out' = [called |-> FALSE, pages |-> extract_text_with_pages(chunk_in.raw)]
    /\ UNCHANGED chunk_in
    /\ UNCHANGED notChunks

\* process_single_file, step B; skipped when no page has text
SmartChunkWithPages ==
    /\ chunk_in.fn = "smart_chunk_with_pages"
    /\ chunk_out # NotCalled
    /\ ~chunk_out.called
    /\ chunk_out.pages # <<>>
    /\ chunk_out' = [called |-> TRUE, pages |-> chunk_out.pages,
                     chunks |-> smart_chunk_with_pages(chunk_out.pages,
                                                       CHUNK_SIZE, CHUNK_OVERLAP),
                     cuts |-> AllCuts(chunk_out.pages, CHUNK_SIZE, CHUNK_OVERLAP)]
    /\ UNCHANGED chunk_in
    /\ UNCHANGED notChunks

PagesNext ==
    \/ ExtractTextWithPages
    \/ SmartChunkWithPages

PagesDone == chunk_in.fn = "smart_chunk_with_pages" /\ chunk_out.called

\* the 0-based positions of c in the trailing 30% of the window at start
TrailingPositions(text, start, c) ==
    {i \in start..(start + CHUNK_SIZE - 1) :
        /\ i + 1 <= Len(text)
        /\ text[i + 1] = c
        /\ 10 * (i - start) > 7 * CHUNK_SIZE}

\* where a window of the page that starts at start and does not reach the
\* end of the page is to be cut
RuleEnd(text, start) ==
    IF TrailingPositions(text, start, ".") # {}
    THEN 1 + CHOOSE i \in TrailingPositions(text, start, ".") :
                \A j \in TrailingPositions(text, start, ".") : j <= i
    ELSE IF TrailingPositions(text, start, "\n") # {}
         THEN 1 + CHOOSE i \in TrailingPositions(text, start, "\n") :
                     \A j \in TrailingPositions(text, start, "\n") : j <= i
         ELSE start + CHUNK_SIZE

\* C19: every chunk is a non-empty stripped piece of the text of the page
\* whose number it carries, the chunks follow the order of the pages, and
\* every cut inside a page comes after the last period, else after the last
\* newline, of the trailing 30% of its window, else at the window's end.
C19_PageProvenance ==
    PagesDone =>
        LET chunks == chunk_out.chunks
            raw == chunk_in.raw
        IN /\ \A i \in DOMAIN chunks :
                 /\ chunks[i].text # <<>>
                 /\ chunks[i].page_number \in DOMAIN raw
                 /\ \E a \in 0..Len(raw[chunks[i].page_number]) :
                       \E b \in a..Len(raw[chunks[i].page_number]) :
                          chunks[i].text = Strip(Slice(raw[chunks[i].page_number], a, b))
           /\ \A i, j \in DOMAIN chunks :
                 i < j => chunks[i].page_number <= chunks[j].page_number
           /\ \A k \in DOMAIN chunk_out.cuts :
                 LET c == chunk_out.cuts[k]
                 IN c.end < Len(raw[c.page_number]) =>
                        c.end = RuleEnd(raw[c.page_number], c.start)

\* a page cut after a period that is not the last character of its window,
\* in a document whose second page has text
C19_Witness ==
    /\ PagesDone
    /\ \E k \in DOMAIN chunk_out.cuts :
          /\ chunk_out.cuts[k].end < Len(chunk_in.raw[chunk_out.cuts[k].page_number])
          /\ chunk_out.cuts[k].end - chunk_out.cuts[k].start < CHUNK_SIZE
    /\ \E i \in DOMAIN chunk_out.chunks : chunk_out.chunks[i].page_number = 2

-----------------------------------------------------------------------------
(* Documents: upload_document and delete_document of api.py, on the tables *)
(* UPLOADED_DOCUMENTS and DOC_CHUNKS_V4 and the global rag                 *)

Teachers == {"t1", "t2"}

\* tempfile.NamedTemporaryFile(delete=False, suffix=".pdf"): the k-th upload
\* gets a name of its own, which is not the name of an uploaded file
TmpName(k) ==
    <<"tmp1.pdf", "tmp2.pdf", "tmp3.pdf", "tmp4.pdf", "tmp5.pdf", "tmp6.pdf">>[k]

DocStart ==
    /\ uploaded_documents = <<>>
    /\ doc_last = [op |-> "none", ops |-> 0, uploads |-> 0]

\* metadata LIKE '%"source": "<filename>"%'
LikeSource(row, filename) == row.source = filename

\* POST /documents/upload.  doc_id is the number of the upload; the chunks
\* are stored by process_single_file under the name of the temp file, the
\* document record keeps file.filename, and the commit of the record also
\* commits what process_single_file left uncommitted.
UploadDocument ==
    /\ doc_last.ops < MaxDocOps
    /\ \E filename \in PdfFiles, user_id \in Teachers, n \in 1..MaxPdfChunks,
          readable \in BOOLEAN :
       \E batch_ok \in [1..NumBatches(n) -> BOOLEAN], inserted \in 0..n :
         LET all_ok == \A b \in DOMAIN batch_ok : batch_ok[b]
             doc_id == doc_last.uploads + 1
             tmp_path == TmpName(doc_id)
             res == process_single_file(tmp_path, readable, n, batch_ok, inserted)
             committed == res.table \o res.pending
         IN \* one choice for each distinct outcome
            /\ ~readable => (n = 1 /\ all_ok /\ inserted = n)
            /\ ~all_ok => inserted = n
            /\ chunk_table' = committed
            /\ pending' = <<>>
            /\ uploaded_documents' =
                  Append(uploaded_documents,
                         [doc_id |-> doc_id, user_id |-> user_id,
                          filename |-> filename, chunk_count |-> res.returned])
            /\ rag' = LoadVectors(committed)
            /\ doc_last' = [op |-> "upload", ops |-> doc_last.ops + 1,
                            uploads |-> doc_id, doc_id |-> doc_id,
                            before |-> chunk_table]
    /\ UNCHANGED <<ingest_log, before_call, search_out>>
    /\ UNCHANGED notDocs

\* DELETE /documents/{doc_id}
DeleteDocument ==
    /\ doc_last.ops < MaxDocOps
    /\ \E doc_id \in 1..MaxDocOps, user_id \in Teachers :
         LET rows == SelectSeq(uploaded_documents,
                               LAMBDA d : d.doc_id = doc_id /\ d.user_id = user_id)
         IN IF rows = <<>>
            THEN \* 404
                 /\ UNCHANGED <<chunk_table, pending, uploaded_documents, rag>>
                 /\ doc_last' = [op |-> "not_found", ops |-> doc_last.ops + 1,
                                 uploads |-> doc_last.uploads]
            ELSE LET filename == rows[1].filename
                     kept == SelectSeq(chunk_table \o pending,
                                       LAMBDA row : ~LikeSource(row, filename))
                 IN /\ chunk_table' = kept
                    /\ pending' = <<>>
                    /\ uploaded_documents' =
                          SelectSeq(uploaded_documents, LAMBDA d : d.doc_id # doc_id)
                    /\ rag' = LoadVectors(kept)
                    /\ doc_last' = [op |-> "delete", ops |-> doc_last.ops + 1,
                                    uploads |-> doc_last.uploads, doc_id |-> doc_id,
                                    before |-> chunk_table]
    /\ UNCHANGED <<ingest_log, before_call, search_out>>
    /\ UNCHANGED notDocs

DocNext ==
    \/ UploadDocument
    \/ DeleteDocument

\* the rows that the upload numbered doc_id created
CreatedFrom(table, doc_id) ==
    SelectSeq(table, LAMBDA row : row.source = TmpName(doc_id))

\* the rows of every other document
NotCreatedFrom(table, doc_id) ==
    SelectSeq(table, LAMBDA row : row.source # TmpName(doc_id))

\* C20: after delete_document of an uploaded document, no chunk created
\* from it is in DOC_CHUNKS_V4 or in the corpus of the reloaded retriever,
\* and the chunks of every other document are as before.
C20_DeleteRemovesChunks ==
    doc_last.op = "delete" =>
        /\ CreatedFrom(chunk_table, doc_last.doc_id) = <<>>
        /\ \A i \in DOMAIN rag.metadata :
              rag.metadata[i].source # TmpName(doc_last.doc_id)
        /\ NotCreatedFrom(chunk_table, doc_last.doc_id)
              = NotCreatedFrom(doc_last.before, doc_last.doc_id)

\* C25: after upload_document, the chunk_count recorded for the document,
\* which is the number process_single_file returned and the chunks_created
\* of the answer, is the number of rows of the document committed to
\* DOC_CHUNKS_V4
C25_TruthfulChunkCount ==
    doc_last.op = "upload" =>
        \A i \in DOMAIN uploaded_documents :
            uploaded_documents[i].doc_id = doc_last.doc_id =>
                uploaded_documents[i].chunk_count
                    = Len(CreatedFrom(chunk_table, doc_last.doc_id))

\* when every step succeeds the count is the number of rows stored
CountOfStored ==
    /\ doc_last.op = "upload"
    /\ \E i \in DOMAIN uploaded_documents :
         /\ uploaded_documents[i].doc_id = doc_last.doc_id
         /\ uploaded_documents[i].chunk_count = MaxPdfChunks
         /\ Len(CreatedFrom(chunk_table, doc_last.doc_id)) = MaxPdfChunks

-----------------------------------------------------------------------------
(* The corpus snapshot behind the global rag: api.py startup,              *)
(* upload_document, delete_document; rag_engine.py __init__,               *)
(* _load_vectors and search, statement by statement                        *)

MaxReloads == 3
MaxDocRows == 2
MaxSwapRows == 2

\* rag = None at module level
NoRef == 0

InPlace(ref, n) == IF ref = NoRef THEN n + 1 ELSE ref

\* RAGEngine(db.conn) is a constructor call: its object is a new one,
\* whatever rag refers to
ReloadTarget(ref, n) == n + 1

\* __init__: the three lists start empty
EmptyEngine == [texts |-> <<>>, embeddings |-> [matrix |-> FALSE, rows |-> <<>>],
                metadata |-> <<>>]

\* the rows one upload stores
DocRows(k, n) ==
    [i \in 1..n |->
        [chunk_text |-> <<"doc", k, i>>, embedding |-> <<"vec", k, i>>,
         source |-> TmpName(k), chunk_id |-> i - 1, page_number |-> 1,
         total_chunks |-> n]]

RowMetadata(row) ==
    [source |-> row.source, chunk_id |-> row.chunk_id,
     page_number |-> row.page_number, total_chunks |-> row.total_chunks]

\* np.vstack and the division by the row norms: a new array object
Normalized(rows) == [matrix |-> TRUE, rows |-> [i \in DOMAIN rows |-> <<"unit", rows[i]>>]]

LoaderIdle == [pc |-> "idle"]

ReaderIdle == [pc |-> "idle"]

SwapStart ==
    /\ engines = <<>>
    /\ rag_ref = NoRef
    /\ loader = LoaderIdle
    /\ reader = ReaderIdle
    /\ published = <<>>

notSwapTable == <<pending, ingest_log, before_call, upsertVars, searchVars, queryVars, quizVars, mcqVars, chunkVars, docVars, batchVars, purgeVars, chatVars, raceVars, loopVars, checkVars>>

\* startup(): the first engine is about to be built
StartupReload ==
    /\ loader.pc = "idle"
    /\ rag_ref = NoRef
    /\ engines = <<>>
    /\ loader' = [pc |-> "construct"]
    /\ UNCHANGED <<engines, rag_ref, reader, published, chunk_table, notSwapTable>>

\* upload_document up to the commit: the rows of the new document are stored
UploadCommit ==
    /\ loader.pc = "idle"
    /\ rag_ref # NoRef
    /\ Len(published) < MaxReloads
    /\ \E n \in 1..MaxDocRows :
         /\ Len(chunk_table) + n <= MaxSwapRows
         /\ chunk_table' = chunk_table \o DocRows(Len(published), n)
    /\ loader' = [pc |-> "construct"]
    /\ UNCHANGED <<engines, rag_ref, reader, published, notSwapTable>>

NotOfSource(row, source) == row.source # source

RowsWithout(table, source) ==
    LET keep[i \in 0..Len(table)] ==
            IF i = 0 THEN <<>>
            ELSE IF NotOfSource(table[i], source) THEN Append(keep[i - 1], table[i])
                 ELSE keep[i - 1]
    IN keep[Len(table)]

\* delete_document up to the commit: the rows of one document are removed
DeleteCommit ==
    /\ loader.pc = "idle"
    /\ rag_ref # NoRef
    /\ Len(published) < MaxReloads
    /\ \E i \in DOMAIN chunk_table :
         chunk_table' = RowsWithout(chunk_table, chunk_table[i].source)
    /\ loader' = [pc |-> "construct"]
    /\ UNCHANGED <<engines, rag_ref, reader, published, notSwapTable>>

\* RAGEngine.__init__ and the SELECT of _load_vectors
Construct ==
    /\ loader.pc = "construct"
    /\ LET id == ReloadTarget(rag_ref, Len(engines))
       IN /\ engines' = [i \in 1..Max(id, Len(engines)) |->
                            IF i = id THEN EmptyEngine ELSE engines[i]]
          /\ loader' = [pc |-> "rows", target |-> id, rows |-> chunk_table,
                        i |-> 1, col |-> "text"]
    /\ UNCHANGED <<rag_ref, reader, published, chunk_table, notSwapTable>>

\* one append of the loop of _load_vectors
AppendRow ==
    /\ loader.pc = "rows"
    /\ loader.i <= Len(loader.rows)
    /\ LET row == loader.rows[loader.i]
           obj == engines[loader.target]
       IN CASE loader.col = "text" ->
                 /\ engines' = [engines EXCEPT ![loader.target].texts =
                                    Append(obj.texts, row.chunk_text)]
                 /\ loader' = [loader EXCEPT !.col = "embedding"]
            [] loader.col = "embedding" ->
                 /\ engines' = [engines EXCEPT ![loader.target].embeddings.rows =
                                    Append(obj.embeddings.rows, row.embedding)]
                 /\ loader' = [loader EXCEPT !.col = "metadata"]
            [] loader.col = "metadata" ->
                 /\ engines' = [engines EXCEPT ![loader.target].metadata =
                                    Append(obj.metadata, RowMetadata(row))]
                 /\ loader' = [loader EXCEPT !.col = "text", !.i = loader.i + 1]
    /\ UNCHANGED <<rag_ref, reader, published, chunk_table, notSwapTable>>

\* after the loop: the list of vectors becomes one normalised matrix
Stack ==
    /\ loader.pc = "rows"
    /\ loader.i > Len(loader.rows)
    /\ LET obj == engines[loader.target]
       IN engines' = IF Len(obj.embeddings.rows) > 0
                     THEN [engines EXCEPT ![loader.target].embeddings =
                               Normalized(obj.embeddings.rows)]
                     ELSE engines
    /\ loader' = [pc |-> "assign", target |-> loader.target]
    /\ UNCHANGED <<rag_ref, reader, published, chunk_table, notSwapTable>>

\* rag = RAGEngine(...): the finished engine is bound to the global
Publish ==
    /\ loader.pc = "assign"
    /\ rag_ref' = loader.target
    /\ published' = Append(published, engines[loader.target])
    /\ loader' = LoaderIdle
    /\ UNCHANGED <<engines, reader, chunk_table, notSwapTable>>

\* the SELECT of the constructor raises (the database is not reachable):
\* the handler answers with an error, rag keeps the engine it had, and the
\* engine under construction, which nothing refers to, is freed
ReloadFails ==
    /\ loader.pc = "construct"
    /\ rag_ref # NoRef
    /\ loader' = LoaderIdle
    /\ UNCHANGED <<engines, rag_ref, reader, published, chunk_table, notSwapTable>>

\* a handler evaluates rag.search(...): self is the engine rag refers to now
SwapSearchBegin ==
    /\ reader.pc = "idle"
    /\ rag_ref # NoRef
    /\ reader' = [pc |-> "embed", self |-> rag_ref, from |-> Len(published),
                  status |-> "running", embeddings |-> <<>>, top_idxs |-> <<>>,
                  results |-> <<>>, sources |-> <<>>]
    /\ UNCHANGED <<engines, rag_ref, loader, published, chunk_table, notSwapTable>>

\* cosine_similarity(query_vec, self.embeddings) and the argsort
ReadEmbeddings ==
    /\ reader.pc = "embed"
    /\ LET e == engines[reader.self].embeddings
       IN IF e.rows = <<>>
          THEN reader' = [reader EXCEPT !.pc = "done", !.status = "raised"]
          ELSE \E order \in IndexOrders(Len(e.rows)), top_k \in 1..MaxSwapRows :
                 reader' = [reader EXCEPT !.pc = "text", !.embeddings = e,
                                          !.top_idxs = TopIdxs(order, top_k)]
    /\ UNCHANGED <<engines, rag_ref, loader, published, chunk_table, notSwapTable>>

\* chunk_text = self.texts[i]
ReadText ==
    /\ reader.pc = "text"
    /\ Len(reader.results) < Len(reader.top_idxs)
    /\ LET i == reader.top_idxs[Len(reader.results) + 1]
           texts == engines[reader.self].texts
       IN IF i \in DOMAIN texts
          THEN reader' = [reader EXCEPT !.pc = "metadata",
                                        !.results = Append(reader.results, texts[i])]
          ELSE reader' = [reader EXCEPT !.pc = "done", !.status = "raised"]
    /\ UNCHANGED <<engines, rag_ref, loader, published, chunk_table, notSwapTable>>

UnknownSource == [source |-> "Unknown"]

\* meta_str = self.metadata[i], inside the try of the loop
ReadMetadata ==
    /\ reader.pc = "metadata"
    /\ LET i == reader.top_idxs[Len(reader.sources) + 1]
           metadata == engines[reader.self].metadata
       IN reader' = [reader EXCEPT !.pc = "text",
                        !.sources = Append(reader.sources,
                                           IF i \in DOMAIN metadata THEN metadata[i]
                                           ELSE UnknownSource)]
    /\ UNCHANGED <<engines, rag_ref, loader, published, chunk_table, notSwapTable>>

\* return results, sources
SwapSearchDone ==
    /\ reader.pc = "text"
    /\ Len(reader.results) = Len(reader.top_idxs)
    /\ reader' = [reader EXCEPT !.pc = "done", !.status = "ok"]
    /\ UNCHANGED <<engines, rag_ref, loader, published, chunk_table, notSwapTable>>

\* the handler has answered; the next request may search
SwapSearchReturn ==
    /\ reader.pc = "done"
    /\ reader' = ReaderIdle
    /\ UNCHANGED <<engines, rag_ref, loader, published, chunk_table, notSwapTable>>

SwapNext ==
    \/ StartupReload
    \/ UploadCommit
    \/ DeleteCommit
    \/ Construct
    \/ AppendRow
    \/ Stack
    \/ Publish
    \/ ReloadFails
    \/ SwapSearchBegin
    \/ ReadEmbeddings
    \/ ReadText
    \/ ReadMetadata
    \/ SwapSearchDone
    \/ SwapSearchReturn

\* the three lists of a snapshot have one length and row i of each comes
\* from the same stored row
Aligned(s) ==
    /\ Len(s.texts) = Len(s.embeddings.rows)
    /\ Len(s.texts) = Len(s.metadata)
    /\ \A i \in DOMAIN s.texts :
         \E k \in 0..MaxReloads, r \in 1..MaxDocRows :
           /\ s.texts[i] = <<"doc", k, r>>
           /\ s.embeddings.rows[i] = <<"unit", <<"vec", k, r>>>>
           /\ s.metadata[i].source = TmpName(k)
           /\ s.metadata[i].chunk_id = r - 1

\* everything the search has read so far is what snapshot s holds
ReadsFrom(s) ==
    /\ reader.embeddings \in {<<>>, s.embeddings}
    /\ \A j \in DOMAIN reader.top_idxs : reader.top_idxs[j] \in DOMAIN s.texts
    /\ \A j \in DOMAIN reader.results : reader.results[j] = s.texts[reader.top_idxs[j]]
    /\ \A j \in DOMAIN reader.sources : reader.sources[j] = s.metadata[reader.top_idxs[j]]

OneSnapshot ==
    /\ \A k \in DOMAIN published : Aligned(published[k])
    /\ reader.pc # "idle" =>
         /\ \E k \in reader.from..Len(published) :
              k \in DOMAIN published /\ ReadsFrom(published[k])
         /\ reader.pc = "done" /\ Len(published[reader.from].texts) > 0
               => reader.status = "ok"

Searchable ==
    ({rag_ref} \cup (IF reader.pc = "idle" THEN {} ELSE {reader.self})) \ {NoRef}

NeverMutated ==
    \A id \in Searchable : id \in DOMAIN engines' /\ engines'[id] = engines[id]

\* C21: a search that runs while the corpus is reloaded reads its texts,
\* embeddings and metadata from one snapshot, the one rag held when the
\* search was called or a later one, whose three sequences are equally long
\* and aligned row by row; and no step changes an engine that rag refers to
\* or that a search is reading
C21_AtomicSnapshotSwap == []OneSnapshot /\ [][NeverMutated]_vars

\* a search that began on one snapshot has returned after another one,
\* with a different corpus, was assigned to rag
C21_Witness ==
    /\ reader.pc = "done"
    /\ reader.status = "ok"
    /\ reader.from < Len(published)
    /\ published[reader.from] # published[Len(published)]
    /\ Len(reader.results) >= 2

-----------------------------------------------------------------------------
(* ai_tutor/chunk_embed_store.py: ingest_paths over a batch of files, one  *)
(* iteration of its loop at a time                                         *)

MaxBatchFiles == 3

\* What a path of the batch can be: a text file that parses, a file with a
\* suffix outside the accepted set, a .pdf that PdfReader rejects (read_pdf
\* catches per-page errors only), a directory
PathKinds == {"text", "unsupported", "corrupt", "directory"}

BatchName(k) == <<"a.txt", "b.txt", "c.txt", "d.txt">>[k]

is_file(kind) == kind # "directory"

Accepted(kind) == kind \in {"text", "corrupt"}

\* load_text(p): the text of the file, or an exception
LoadRaises(kind) == kind \in {"corrupt", "unsupported"}

BatchIdle == [pc |-> "idle"]

BatchStart == ingestion = BatchIdle

notBatchTable == <<to_upsert, upsert_i, upsert_pc, runs, first_store, rerun_same, midway, ingestVars, searchVars, queryVars, quizVars, mcqVars, chunkVars, docVars, swapVars, purgeVars, chatVars, raceVars, loopVars, checkVars>>

\* ingest_paths(paths) with a non-empty list, up to the loop
BatchBegin ==
    /\ ingestion.pc = "idle"
    /\ doc_chunks = <<>>
    /\ \E n \in 1..MaxBatchFiles : \E kinds \in [1..n -> PathKinds] :
         ingestion' = [pc |-> "loop", paths |-> kinds, i |-> 1, rows |-> <<>>]
    /\ UNCHANGED <<doc_chunks, session, notBatchTable>>

\* lines 286-289: not a file, or a suffix that is not accepted: continue
BatchSkip ==
    /\ ingestion.pc = "loop"
    /\ ingestion.i <= Len(ingestion.paths)
    /\ ~is_file(ingestion.paths[ingestion.i]) \/ ~Accepted(ingestion.paths[ingestion.i])
    /\ ingestion' = [ingestion EXCEPT !.i = ingestion.i + 1]
    /\ UNCHANGED <<doc_chunks, session, notBatchTable>>

\* lines 291-305: load_text, make_chunks and the rows of the file; an
\* exception of load_text is caught nowhere and ends ingest_paths
BatchParse ==
    /\ ingestion.pc = "loop"
    /\ ingestion.i <= Len(ingestion.paths)
    /\ is_file(ingestion.paths[ingestion.i]) /\ Accepted(ingestion.paths[ingestion.i])
    /\ IF LoadRaises(ingestion.paths[ingestion.i])
       THEN ingestion' = [ingestion EXCEPT !.pc = "raised"]
       ELSE ingestion' = [ingestion EXCEPT !.i = ingestion.i + 1,
                         !.rows = ingestion.rows \o
                                  FileRows(BatchName(ingestion.i), [rev |-> "r1", n |-> 1])]
    /\ UNCHANGED <<doc_chunks, session, notBatchTable>>

\* lines 307-331: nothing prepared: return; else embed and upsert the rows
BatchStore ==
    /\ ingestion.pc = "loop"
    /\ ingestion.i > Len(ingestion.paths)
    /\ ingestion' = [ingestion EXCEPT !.pc = "done"]
    /\ IF ingestion.rows = <<>>
       THEN UNCHANGED <<doc_chunks, session>>
       ELSE /\ doc_chunks' = MergeAll(doc_chunks, NormalizeRows(EmbedRows(ingestion.rows)))
            /\ session' = doc_chunks'
    /\ UNCHANGED notBatchTable

BatchNext ==
    \/ BatchBegin
    \/ BatchSkip
    \/ BatchParse
    \/ BatchStore

BatchEnded == ingestion.pc \in {"done", "raised"}

StoredFrom(name) ==
    \E i \in DOMAIN doc_chunks : doc_chunks[i].source_uri = <<"local", name>>

\* C22: when a batch ingestion has ended, every file of the batch that has
\* an accepted suffix and whose text can be extracted is stored, whatever
\* the other paths of the batch are
C22_ErrorIsolation ==
    BatchEnded =>
        \A k \in DOMAIN ingestion.paths :
            ingestion.paths[k] = "text" => StoredFrom(BatchName(k))

\* a batch with an unsupported file and a directory beside a good file ends
\* with the good file stored
SkipsUnsupported ==
    /\ ingestion.pc = "done"
    /\ \E k \in DOMAIN ingestion.paths : ingestion.paths[k] = "unsupported"
    /\ \E k \in DOMAIN ingestion.paths :
         ingestion.paths[k] = "text" /\ StoredFrom(BatchName(k))

-----------------------------------------------------------------------------
(* Guest clean-up: database.py cleanup_guest_sessions and                  *)
(* cleanup_old_guest_data, api.py cleanup_guest_session.  The rows of      *)
(* USER_QUERIES carry their TIMESTAMP column here.                         *)

MaxClock == 3
MaxPurgeRows == 3

\* INTERVAL '24' HOUR, in units of twelve hours
GUEST_RETENTION == 2

PurgeTexts == {<<"q">>, <<"r">>}

\* timestamp TIMESTAMP DEFAULT SYSTIMESTAMP
Stamped(r, t) ==
    [user_id |-> r.user_id, query_text |-> r.query_text, query_hash |-> r.query_hash,
     answered_correctly |-> r.answered_correctly, is_guest |-> r.is_guest,
     timestamp |-> t]

\* log_query at time t: the row it inserts, if any, gets the time of the insert
LogQueryAt(table, user_id, query_text, is_guest, t) ==
    LET out == log_query(table, user_id, query_text, is_guest)
    IN IF Len(out) > Len(table)
       THEN Append(table, Stamped(out[Len(out)], t))
       ELSE table

AnyRecord(r) == TRUE

\* is_guest = 'Y'
IsGuestRecord(r) == r.is_guest = "Y"

\* timestamp < SYSTIMESTAMP - INTERVAL '24' HOUR
Expired(r, t) == r.timestamp < t - GUEST_RETENTION

\* DELETE FROM USER_QUERIES WHERE user_id = :1 AND is_guest = 'Y'
DeleteGuest(table, guest_user_id) ==
    LET keep[i \in 0..Len(table)] ==
            IF i = 0 THEN <<>>
            ELSE IF table[i].user_id = guest_user_id /\ IsGuestRecord(table[i])
                 THEN keep[i - 1]
                 ELSE Append(keep[i - 1], table[i])
    IN keep[Len(table)]

\* DELETE FROM USER_QUERIES WHERE is_guest = 'Y' AND timestamp < SYSTIMESTAMP - INTERVAL '24' HOUR
DeleteExpired(table, t) ==
    LET keep[i \in 0..Len(table)] ==
            IF i = 0 THEN <<>>
            ELSE IF IsGuestRecord(table[i]) /\ Expired(table[i], t)
                 THEN keep[i - 1]
                 ELSE Append(keep[i - 1], table[i])
    IN keep[Len(table)]

\* DatabaseManager.cleanup_guest_sessions, at time t; None and the empty
\* string both fail the test "if guest_user_id"
cleanup_guest_sessions(table, guest_user_id, t) ==
    IF guest_user_id # NoUser
    THEN DeleteGuest(table, guest_user_id)
    ELSE DeleteExpired(table, t)

\* DatabaseManager.cleanup_old_guest_data, at time t
cleanup_old_guest_data(table, t) == DeleteExpired(table, t)

PurgeStart ==
    /\ now = 0
    /\ purge_last = [op |-> "none"]

notPurgeTable == <<q_last, q_ops, upsertVars, ingestVars, searchVars, quizVars, mcqVars, chunkVars, docVars, swapVars, batchVars, chatVars, raceVars, loopVars, checkVars>>

\* time passes
Tick ==
    /\ now < MaxClock
    /\ now' = now + 1
    /\ purge_last' = [op |-> "none"]
    /\ UNCHANGED <<user_queries, notPurgeTable>>

\* a chat request logs its question, as a member or as a guest
PurgeLogQuery ==
    /\ Len(user_queries) < MaxPurgeRows
    /\ \E user_id \in UserIds, query_text \in PurgeTexts, is_guest \in BOOLEAN :
         user_queries' = LogQueryAt(user_queries, user_id, query_text, is_guest, now)
    /\ purge_last' = [op |-> "none"]
    /\ UNCHANGED <<now, notPurgeTable>>

\* db.cleanup_guest_sessions(guest_user_id), with or without an id
CleanupGuestSessions ==
    /\ \E guest_user_id \in UserIds \cup {NoUser} :
         /\ user_queries' = cleanup_guest_sessions(user_queries, guest_user_id, now)
         /\ purge_last' = [op |-> "cleanup_guest_sessions", arg |-> guest_user_id,
                           before |-> user_queries]
    /\ UNCHANGED <<now, notPurgeTable>>

\* db.cleanup_old_guest_data()
CleanupOldGuestData ==
    /\ user_queries' = cleanup_old_guest_data(user_queries, now)
    /\ purge_last' = [op |-> "cleanup_old_guest_data", arg |-> NoUser,
                      before |-> user_queries]
    /\ UNCHANGED <<now, notPurgeTable>>

\* POST /session/cleanup: the clean-up is called only with an id
CleanupGuestSession ==
    /\ \E user_id \in UserIds \cup {NoUser} :
         /\ user_queries' = IF user_id # NoUser
                            THEN cleanup_guest_sessions(user_queries, user_id, now)
                            ELSE user_queries
         /\ purge_last' = [op |-> "session_cleanup", arg |-> user_id,
                           before |-> user_queries]
    /\ UNCHANGED <<now, notPurgeTable>>

PurgeNext ==
    \/ Tick
    \/ PurgeLogQuery
    \/ CleanupGuestSessions
    \/ CleanupOldGuestData
    \/ CleanupGuestSession

GuestOf(g, r) == r.user_id = g /\ r.is_guest = "Y"

OldGuest(r) == r.is_guest = "Y" /\ now - r.timestamp > GUEST_RETENTION

OldGuestPurged ==
    /\ purge_last.op = "cleanup_old_guest_data"
    /\ \E i, j, k \in DOMAIN purge_last.before :
         /\ OldGuest(purge_last.before[i])
         /\ purge_last.before[j].is_guest = "Y"
         /\ now - purge_last.before[j].timestamp = GUEST_RETENTION
         /\ purge_last.before[k].is_guest = "N"
         /\ now - purge_last.before[k].timestamp > GUEST_RETENTION
    /\ Len(user_queries) = 2

-----------------------------------------------------------------------------
(* Chat history: api.py create_chat_and_message and get_chat_messages      *)

MaxExchanges == 2

ChatIds == {"c1", "c2"}

\* request.chat_id is empty for a new chat
NoChat == ""

ChatStart ==
    /\ chat_instances = <<>>
    /\ chat_messages = <<>>
    /\ utcnow = 0
    /\ msg_out = [status |-> "none"]

notChatLog == <<q_last, q_ops, upsertVars, ingestVars, searchVars, quizVars, mcqVars, chunkVars, docVars, swapVars, batchVars, purgeVars, raceVars, loopVars, checkVars>>

\* the number of the exchange a handler is serving: one more than those stored
Exchange == Len(chat_messages) \div 2 + 1

\* lines 536-545: the two INSERTs of one exchange; both bind the timestamp
\* taken at line 497
ExchangeRows(chat_id, message, answer, timestamp, k) ==
    <<[message_id |-> <<"m", k, 1>>, chat_id |-> chat_id, role |-> "user",
       content |-> message, created_at |-> timestamp],
      [message_id |-> <<"m", k, 2>>, chat_id |-> chat_id, role |-> "assistant",
       content |-> answer, created_at |-> timestamp]>>

\* POST /chats: a new chat when the request names none; the question and the
\* answer are stored; the question is logged for the quiz
ChatExchange ==
    /\ Exchange <= MaxExchanges
    /\ \E user_id \in UserIds, message \in PurgeTexts, req \in ChatIds \cup {NoChat} :
         LET timestamp == utcnow
             new == CHOOSE c \in ChatIds \cup {NoChat} :
                      \/ c \in ChatIds /\ \A i \in DOMAIN chat_instances :
                                            chat_instances[i].chat_id # c
                      \/ c = NoChat /\ \A d \in ChatIds : \E i \in DOMAIN chat_instances :
                                            chat_instances[i].chat_id = d
             chat_id == IF req = NoChat THEN new ELSE req
         IN /\ chat_id # NoChat
            /\ chat_instances' =
                 IF req = NoChat
                 THEN Append(chat_instances, [chat_id |-> chat_id, user_id |-> user_id])
                 ELSE chat_instances
            /\ chat_messages' = chat_messages \o
                 ExchangeRows(chat_id, message, <<"answer", Exchange>>, timestamp, Exchange)
            /\ user_queries' = log_query(user_queries, user_id, message, FALSE)
    /\ utcnow' = utcnow + 1
    /\ msg_out' = [status |-> "none"]
    /\ UNCHANGED notChatLog

\* WHERE chat_id = :1
OfChat(table, chat_id) ==
    LET keep[i \in 0..Len(table)] ==
            IF i = 0 THEN <<>>
            ELSE IF table[i].chat_id = chat_id THEN Append(keep[i - 1], table[i])
                 ELSE keep[i - 1]
    IN keep[Len(table)]

\* ORDER BY created_at ASC: any order in which created_at does not
\* decrease; rows with equal created_at may come in either order
OrderedByCreatedAt(rows) ==
    {[i \in DOMAIN rows |-> rows[p[i]]] : p \in
        {q \in IndexOrders(Len(rows)) :
            \A i, j \in DOMAIN rows :
                i < j => rows[q[i]].created_at <= rows[q[j]].created_at}}

\* GET /chats/{chat_id}/messages
GetChatMessages ==
    /\ \E chat_id \in ChatIds, user_id \in UserIds :
         IF \E i \in DOMAIN chat_instances :
               chat_instances[i].chat_id = chat_id /\ chat_instances[i].user_id = user_id
         THEN \E messages \in OrderedByCreatedAt(OfChat(chat_messages, chat_id)) :
                msg_out' = [status |-> "ok", chat_id |-> chat_id, messages |-> messages]
         ELSE msg_out' = [status |-> "404"]
    /\ UNCHANGED <<chat_instances, chat_messages, utcnow, user_queries, notChatLog>>

ChatNext ==
    \/ ChatExchange
    \/ GetChatMessages

\* the position of the row with this message_id in CHAT_MESSAGES
InsertedAt(message_id) ==
    CHOOSE i \in DOMAIN chat_messages : chat_messages[i].message_id = message_id

\* C24: get_chat_messages returns the messages of a chat in the order they
\* were created, so that the user's message of every exchange comes before
\* the assistant's reply to it
C24_MessageOrdering ==
    msg_out.status = "ok" =>
        \A i, j \in DOMAIN msg_out.messages :
            i < j => InsertedAt(msg_out.messages[i].message_id)
                       < InsertedAt(msg_out.messages[j].message_id)

\* the exchanges themselves come back in the order they happened
ExchangesInOrder ==
    msg_out.status = "ok" =>
        \A i, j \in DOMAIN msg_out.messages :
            i < j => msg_out.messages[i].message_id[2] <= msg_out.messages[j].message_id[2]

-----------------------------------------------------------------------------
(* database.py log_query, statement by statement, called by two processes  *)
(* (two servers of api.py, or main.py beside api.py), each with its own     *)
(* connection to the same USER_QUERIES table                               *)

MaxRaceCalls == 2

Procs == {"p1", "p2"}

RaceTexts == {<<"Q">>, <<"q", " ">>, <<"r">>}

CallerIdle(n) == [pc |-> "idle", calls |-> n]

RaceStart == callers = [p \in Procs |-> CallerIdle(0)]

notRaceTable == <<q_last, q_ops, upsertVars, ingestVars, searchVars, quizVars, mcqVars, chunkVars, docVars, swapVars, batchVars, purgeVars, chatVars, loopVars, checkVars>>

\* lines 86-87: the hash and the flag are computed
RaceCall(p) ==
    /\ callers[p].pc = "idle"
    /\ callers[p].calls < MaxRaceCalls
    /\ \E user_id \in UserIds, query_text \in RaceTexts :
         callers' = [callers EXCEPT ![p] =
                        [pc |-> "select", calls |-> callers[p].calls + 1,
                         user_id |-> user_id, query_text |-> query_text,
                         query_hash |-> QueryHash(query_text)]]
    /\ UNCHANGED <<user_queries, notRaceTable>>

\* lines 91-94: SELECT COUNT(*) reads the committed table
RaceSelect(p) ==
    /\ callers[p].pc = "select"
    /\ callers' = [callers EXCEPT ![p] =
                      [pc |-> "fetched", calls |-> callers[p].calls,
                       user_id |-> callers[p].user_id,
                       query_text |-> callers[p].query_text,
                       query_hash |-> callers[p].query_hash,
                       count |-> CountQueries(user_queries, callers[p].user_id,
                                              callers[p].query_hash)]]
    /\ UNCHANGED <<user_queries, notRaceTable>>

\* lines 96-102: the count was 0: INSERT and commit.  No constraint of the
\* table rejects a second row with the same user_id and query_hash.
RaceInsert(p) ==
    /\ callers[p].pc = "fetched"
    /\ callers[p].count = 0
    /\ user_queries' = Append(user_queries,
                          [user_id |-> callers[p].user_id,
                           query_text |-> callers[p].query_text,
                           query_hash |-> callers[p].query_hash,
                           answered_correctly |-> "N", is_guest |-> Flag(FALSE)])
    /\ callers' = [callers EXCEPT ![p] = CallerIdle(callers[p].calls)]
    /\ UNCHANGED notRaceTable

\* lines 104-105: the count was not 0: nothing is inserted
RaceSkip(p) ==
    /\ callers[p].pc = "fetched"
    /\ callers[p].count # 0
    /\ callers' = [callers EXCEPT ![p] = CallerIdle(callers[p].calls)]
    /\ UNCHANGED <<user_queries, notRaceTable>>

RaceNext ==
    \E p \in Procs :
        \/ RaceCall(p)
        \/ RaceSelect(p)
        \/ RaceInsert(p)
        \/ RaceSkip(p)

\* C26: however the checks and inserts of concurrent log_query calls
\* interleave, USER_QUERIES never holds two records with the same user_id
\* and query_hash
C26_ConcurrentDedup ==
    \A i, j \in DOMAIN user_queries :
        /\ user_queries[i].user_id = user_queries[j].user_id
        /\ user_queries[i].query_hash = user_queries[j].query_hash
        => i = j

\* calls that do not overlap keep one record: a second call found the
\* record of the first and inserted nothing
SerialCallSkipped ==
    /\ \A p \in Procs : callers[p].pc = "idle"
    /\ callers["p1"].calls = 1 /\ callers["p2"].calls = 1
    /\ Len(user_queries) = 1

-----------------------------------------------------------------------------
(* The while loops of the chunkers, one iteration at a time:               *)
(* chunk_embed_store.py window_chunks, src/chunking.py chunk_text,         *)
(* src/ingest.py smart_chunk_with_pages                                    *)

MaxLoopText == 4
MaxLoopWindow == 3
MaxLoopOverlap == 4
MaxIterations == 6

LoopIdle == [pc |-> "idle"]

LoopStart == iter = LoopIdle

\* window_chunks(text, max_chars, overlap) or chunk_text(text, chunk_size,
\* overlap) is called: start = 0.  The text matters by its length only.
WindowCall ==
    /\ iter.pc = "idle"
    /\ \E fn \in {"window_chunks", "chunk_text"}, n \in 0..MaxLoopText,
          max_chars \in 1..MaxLoopWindow, overlap \in 0..MaxLoopOverlap :
         iter' = [pc |-> "loop", fn |-> fn, n |-> n, max_chars |-> max_chars,
                  overlap |-> overlap, start |-> 0, iterations |-> 0]
    /\ UNCHANGED notLoop

\* window_chunks lines 127-131: one iteration that does not leave the loop
WindowIterate ==
    /\ iter.pc = "loop"
    /\ iter.fn = "window_chunks"
    /\ iter.iterations < MaxIterations
    /\ iter.n # 0
    /\ iter.start < iter.n
    /\ WindowEnd(iter.start, iter.max_chars, iter.n) # iter.n
    /\ iter' = [iter EXCEPT
                  !.start = NextStart(WindowEnd(iter.start, iter.max_chars, iter.n),
                                      iter.overlap),
                  !.iterations = iter.iterations + 1]
    /\ UNCHANGED notLoop

\* window_chunks: the empty text, the loop test fails, or the break of line 130
WindowReturn ==
    /\ iter.pc = "loop"
    /\ iter.fn = "window_chunks"
    /\ \/ iter.n = 0
       \/ ~(iter.start < iter.n)
       \/ WindowEnd(iter.start, iter.max_chars, iter.n) = iter.n
    /\ iter' = [iter EXCEPT !.pc = "done"]
    /\ UNCHANGED notLoop

\* chunk_text line 36
StepStart(start, chunk_size, overlap) == start + (chunk_size - overlap)

\* chunk_text lines 32-36: one iteration
ChunkTextIterate ==
    /\ iter.pc = "loop"
    /\ iter.fn = "chunk_text"
    /\ iter.iterations < MaxIterations
    /\ iter.start < iter.n
    /\ iter' = [iter EXCEPT
                  !.start = StepStart(iter.start, iter.max_chars, iter.overlap),
                  !.iterations = iter.iterations + 1]
    /\ UNCHANGED notLoop

\* chunk_text: the loop test fails
ChunkTextReturn ==
    /\ iter.pc = "loop"
    /\ iter.fn = "chunk_text"
    /\ ~(iter.start < iter.n)
    /\ iter' = [iter EXCEPT !.pc = "done"]
    /\ UNCHANGED notLoop

WindowLoopNext ==
    \/ WindowCall
    \/ WindowIterate
    \/ WindowReturn
    \/ ChunkTextIterate
    \/ ChunkTextReturn

Iterates(fn) == iter.pc = "loop" /\ iter.fn = fn /\ iter'.pc = "loop"

StartIncreases(fn) == Iterates(fn) => iter'.start > iter.start

\* a loop whose start goes up from 0 and stays below len(text) iterates
\* len(text) times at most
IterationsBounded(fn) == iter.pc # "idle" /\ iter.fn = fn => iter.iterations <= iter.n

\* C27: for every text, every max_chars >= 1 and every overlap >= 0, each
\* iteration of the loop of window_chunks moves start forward, and the
\* loop ends after at most len(text) iterations
C27_WindowTerminates ==
    []IterationsBounded("window_chunks") /\ [][StartIncreases("window_chunks")]_vars

\* the same of chunk_text
ChunkTextTerminates ==
    []IterationsBounded("chunk_text") /\ [][StartIncreases("chunk_text")]_vars

\* with overlap < max_chars the loop has gone through a text longer than
\* two windows and returned
WindowReturned ==
    /\ iter.pc = "done"
    /\ iter.fn = "window_chunks"
    /\ iter.overlap < iter.max_chars
    /\ iter.iterations >= 2

-----------------------------------------------------------------------------
(* src/ingest.py smart_chunk_with_pages: the while loop over one page,     *)
(* one iteration at a time, for every chunk_size and overlap below it      *)

MaxPageLoopText == 9
MaxPageWindow == 7

\* a page of n characters with at most one period or newline in it
OneBreakTexts(n) ==
    {[i \in 1..n |-> "a"]} \cup
    {[i \in 1..n |-> IF i = k THEN c ELSE "a"] : k \in 1..n, c \in {".", "\n"}}

\* smart_chunk_with_pages(pages, chunk_size, overlap) reaches a page: start = 0
PageLoopCall ==
    /\ iter.pc = "idle"
    /\ \E n \in 1..MaxPageLoopText, chunk_size \in 1..MaxPageWindow :
         \E text \in OneBreakTexts(n), overlap \in 0..(chunk_size - 1) :
            iter' = [pc |-> "loop", fn |-> "smart_chunk_with_pages", text |-> text,
                     chunk_size |-> chunk_size, overlap |-> overlap, start |-> 0,
                     iterations |-> 0]
    /\ UNCHANGED notLoop

\* lines 51-81: one iteration that does not leave the loop
PageLoopIterate ==
    /\ iter.pc = "loop"
    /\ iter.fn = "smart_chunk_with_pages"
    /\ iter.iterations < MaxIterations
    /\ iter.start < Len(iter.text)
    /\ iter.start + iter.chunk_size < Len(iter.text)
    /\ LET search_zone == Slice(iter.text, iter.start, iter.start + iter.chunk_size)
           end == iter.start + CutLength(search_zone, iter.chunk_size)
       IN iter' = [iter EXCEPT !.start = end - iter.overlap,
                               !.iterations = iter.iterations + 1]
    /\ UNCHANGED notLoop

\* the loop test fails, or the break of line 61
PageLoopReturn ==
    /\ iter.pc = "loop"
    /\ iter.fn = "smart_chunk_with_pages"
    /\ \/ ~(iter.start < Len(iter.text))
       \/ iter.start + iter.chunk_size >= Len(iter.text)
    /\ iter' = [iter EXCEPT !.pc = "done"]
    /\ UNCHANGED notLoop

PageLoopNext ==
    \/ PageLoopCall
    \/ PageLoopIterate
    \/ PageLoopReturn

PageIterationsBounded ==
    iter.pc # "idle" /\ iter.fn = "smart_chunk_with_pages"
        => iter.start >= 0 /\ iter.iterations <= Len(iter.text)

\* C30: for every page, every chunk_size >= 1 and every overlap with
\* 0 <= overlap < chunk_size, each iteration of the loop of
\* smart_chunk_with_pages moves start forward, start is never negative, and
\* the loop ends after at most len(text) iterations
C30_PageChunkerTerminates ==
    []PageIterationsBounded /\ [][StartIncreases("smart_chunk_with_pages")]_vars

\* with the overlap below the shortest cut the loop has gone through a
\* page, cut it at a period, and returned
PageLoopReturned ==
    /\ iter.pc = "done"
    /\ iter.fn = "smart_chunk_with_pages"
    /\ iter.iterations >= 1
    /\ iter.start > 0
    /\ iter.text[iter.start + iter.overlap] = "."

-----------------------------------------------------------------------------
(* POST /mcq/check: api.py check_answer on a request whose fields are the  *)
(* client's: AnswerCheckRequest carries user_id, topic, user_answer,       *)
(* correct_answer and is_first_attempt                                     *)

MaxCheckRows == 2
MaxChecks == 2

NoCheck == [called |-> FALSE, checks |-> 0]

CheckStart == check_resp = NoCheck

notCheckTable == <<q_last, q_ops, upsertVars, ingestVars, searchVars, quizVars, mcqVars, chunkVars, docVars, swapVars, batchVars, purgeVars, chatVars, raceVars, loopVars>>

\* a chat request logs its question
CheckChat ==
    /\ Len(user_queries) < MaxCheckRows
    /\ \E user_id \in UserIds, query_text \in QuizTexts :
         user_queries' = log_query(user_queries, user_id, query_text, FALSE)
    /\ UNCHANGED <<check_resp, notCheckTable>>

\* check_answer(request, user): user_id from the token or the request
CheckAnswerRequest ==
    /\ check_resp.checks < MaxChecks
    /\ \E user_id \in UserIds \cup {NoUser}, topic \in QuizTexts,
          user_answer \in TypedAnswers, correct_answer \in TypedAnswers,
          is_first_attempt \in BOOLEAN :
         LET is_correct == Upper(user_answer) = Upper(correct_answer)
             marks == MarksMastered(is_correct, is_first_attempt, user_id)
         IN /\ user_queries' = IF marks THEN mark_correct(user_queries, user_id, topic)
                               ELSE user_queries
            /\ check_resp' = [called |-> TRUE, checks |-> check_resp.checks + 1,
                              user_id |-> user_id, topic |-> topic,
                              is_correct |-> is_correct, marked_mastered |-> marks]
    /\ UNCHANGED notCheckTable

CheckNext ==
    \/ CheckChat
    \/ CheckAnswerRequest

\* user_id has a record for the topic that is marked as answered correctly
MasteredRecordOf(user_id, topic) ==
    \E i \in DOMAIN user_queries :
        /\ user_queries[i].user_id = user_id
        /\ user_queries[i].query_hash = Sha256(Strip(Lower(topic)))
        /\ user_queries[i].answered_correctly = "Y"

\* C29: when check_answer has answered marked_mastered = true, the user has
\* a record for the submitted topic with answered_correctly set
C29_MasteredIsRecorded ==
    check_resp.called /\ check_resp.marked_mastered
        => MasteredRecordOf(check_resp.user_id, check_resp.topic)

\* a correct first answer on a topic the user has asked about is marked and
\* reported
MasteredReported ==
    /\ check_resp.called
    /\ check_resp.marked_mastered
    /\ MasteredRecordOf(check_resp.user_id, check_resp.topic)

-----------------------------------------------------------------------------
(* Specifications *)

Init ==
    /\ UpsertStart /\ IngestStart /\ SearchStart /\ QueryStart /\ QuizStart
    /\ McqStart /\ ChunkStart /\ DocStart /\ CheckStart /\ LoopStart /\ RaceStart /\ ChatStart /\ PurgeStart /\ BatchStart /\ SwapStart

\* The retriever is checked over every stored corpus of up to MaxCorpus rows
SearchInit ==
    /\ UpsertStart
    /\ SearchStart
    /\ QueryStart
    /\ QuizStart
    /\ McqStart
    /\ ChunkStart
    /\ DocStart /\ CheckStart /\ LoopStart /\ RaceStart /\ ChatStart /\ PurgeStart /\ BatchStart /\ SwapStart
    /\ pending = <<>>
    /\ ingest_log = <<>>
    /\ before_call = [table |-> <<>>, pending |-> <<>>]
    /\ \E vecs \in Corpora : chunk_table = CorpusTable(vecs)

SpecUpsert == Init /\ [][UpsertNext]_vars

SpecIngest == Init /\ [][IngestNext]_vars

SpecSearch == SearchInit /\ [][SearchNext]_vars

SpecQueries == Init /\ [][QueriesNext]_vars

SpecQuiz == Init /\ [][QuizNext]_vars

SpecMcq == Init /\ [][McqNext]_vars

\* The chunkers are checked over every call within the bounds
ChunksInit ==
    /\ UpsertStart /\ IngestStart /\ SearchStart /\ QueryStart /\ QuizStart
    /\ McqStart /\ DocStart /\ CheckStart /\ LoopStart /\ RaceStart /\ ChatStart /\ PurgeStart /\ BatchStart /\ SwapStart
    /\ ChunkInit

SpecChunks == ChunksInit /\ [][ChunkNext]_vars

\* Page-aware chunking is checked over every document within the bounds
PagesSpecInit ==
    /\ UpsertStart /\ IngestStart /\ SearchStart /\ QueryStart /\ QuizStart
    /\ McqStart /\ DocStart /\ CheckStart /\ LoopStart /\ RaceStart /\ ChatStart /\ PurgeStart /\ BatchStart /\ SwapStart
    /\ PagesInit

SpecPages == PagesSpecInit /\ [][PagesNext]_vars

SpecDocs == Init /\ [][DocNext]_vars

SpecSwap == Init /\ [][SwapNext]_vars

SpecBatch == Init /\ [][BatchNext]_vars

SpecPurge == Init /\ [][PurgeNext]_vars

SpecChat == Init /\ [][ChatNext]_vars

SpecRace == Init /\ [][RaceNext]_vars

SpecWindowLoop == Init /\ [][WindowLoopNext]_vars

SpecPageLoop == Init /\ [][PageLoopNext]_vars

SpecCheck == Init /\ [][CheckNext]_vars

====
